---- MODULE Spec2Model ----
(***************************************************************************)
(* Nexora backend: the credential pool of model_router.py, the retrying    *)
(* streaming client MVPBuilderAgent.get_ai_response, and the incremental   *)
(* <file path="..."> extractor of main.py stream_mvp_generation.           *)
(***************************************************************************)
EXTENDS Integers, Sequences, FiniteSets, TLC

(***************************************************************************)
(* Bounds of the model.                                                    *)
(***************************************************************************)
\* largest credential pool of a model family
MaxKeys == 3
\* text deltas carried by one upstream streaming response
MaxDeltas == 1
\* comma-separated parts of the variable PREFIX
MaxParts == 2
\* numbered variables PREFIX_1, PREFIX_2, ... the environment can hold
MaxNumbered == 3
\* pieces (file regions, unterminated tags, stray delimiters) of one streamed response
MaxItems == 3
\* longest chunk that is not the whole rest of the response
MaxChunk == 3
\* longest run of consecutive rotate_key calls whose returns are remembered
MaxRotationRun == MaxKeys + 1

(***************************************************************************)
(* Program constants.                                                      *)
(***************************************************************************)
\* model_configs[AIModel.MINIMAX]["max_retries"]
max_retries == 3
\* model_configs[AIModel.MINIMAX]["retry_delay"]
retry_delay == 5
\* cap of the stream-interruption backoff, min(2 ** retry_count, 10)
backoff_cap == 10

None == "None"

\* AIModelType of model_router.py
Families == {"minimax", "groq", "kimi"}

\* AIModel of mvp_builder_agent.py has the single member MINIMAX
AIModel == {"minimax"}

\* get_recommended_models_for_task(TaskType.MVP_GENERATION)
FallbackChain == <<"minimax", "groq", "kimi">>

\* the two logical callers of get_ai_response that the model follows
Calls == {"A", "B"}

\* HTTP statuses an upstream response can carry
Statuses == {200, 400, 429, 500}

VARIABLES
    \* ---- ModelRouter ----
    environ,             \* family -> the variables PREFIX and PREFIX_1, PREFIX_2, ... of os.environ
    constructed,         \* ModelRouter.__init__ has run
    key_lists,           \* family -> sequence of credentials (minimax_keys, groq_keys, kimi_keys)
    current_key_index,   \* family -> index of the credential in use
    lastKey,             \* value returned by the latest get_api_key / rotate_key
    rotFamily,           \* family of the current run of consecutive rotate_key calls
    rotStart,            \* index of that family before the run
    rotSeen,             \* credentials returned by the run, in order
    \* ---- get_ai_response, per logical call ----
    pc,                  \* position of the call
    model,               \* model family of the innermost frame
    retry_count,         \* argument retry_count of the innermost frame
    key_rotation_count,  \* argument key_rotation_count of the innermost frame
    resume,              \* arguments <<retry_count, key_rotation_count>> of the frame entered after the sleep
    received,            \* deltas of the current upstream response already yielded
    delivered,           \* every delta yielded to the caller, in order
    error,               \* terminal errors raised to the caller, in order
    log,                 \* what the call did: attempts, responses, rotations, sleeps
    last_response,       \* <<status, phrases of the body>> of the latest upstream response
    \* ---- stream_mvp_generation.generate_stream ----
    response,            \* the text the model streams, as the pieces it is made of
    pos,                 \* characters of it received so far
    stage,               \* position of generate_stream
    content_buffer,      \* main.py:1306
    current_file,        \* path of the open file, None when no file is open
    files_created,       \* main.py:1310
    files_map,           \* main.py:1311
    events,              \* file_operation, warning, complete and error events yielded, in order
    sandbox_calls,       \* paths update_sandbox_file was called with, in order
    scan_from,           \* where re.finditer of the fallback goes on in full_ai_response
    recovery_entered,    \* the branch of main.py:1421 was taken
    extracted,           \* number of events yielded when the chunk stream ended
    \* ---- MVPBuilderAgent.apply_code_to_sandbox ----
    e2b_api_key,         \* self.e2b_api_key is set
    generated_code,      \* the argument generated_code, as the pieces it is made of
    apply_pc,            \* position of apply_code_to_sandbox
    files,               \* the dict _parse_generated_code returned
    packages_result,     \* what detect_and_install_packages returned
    apply_events,        \* the events apply_code_to_sandbox yielded, in order
    updated,             \* the path lists update_sandbox_files was called with, in order
    \* ---- ModelRouter.get_model_for_task ----
    config,              \* mvp_primary, general_primary, fallback_model as __init__ read them
    selection            \* arguments and result of the latest get_model_for_task

routerVars == <<environ, constructed, key_lists, current_key_index, lastKey, rotFamily, rotStart, rotSeen>>
clientVars == <<pc, model, retry_count, key_rotation_count, resume, received, delivered, error, log,
                last_response>>
streamVars == <<response, pos, stage, content_buffer, current_file, files_created, files_map,
                events, sandbox_calls, scan_from, recovery_entered, extracted>>
applyVars == <<e2b_api_key, generated_code, apply_pc, files, packages_result, apply_events, updated>>
selectVars == <<config, selection>>
vars == <<routerVars, clientVars, streamVars, applyVars, selectVars>>

(***************************************************************************)
(* ModelRouter: get_api_key, rotate_key, get_all_keys_for_model.           *)
(***************************************************************************)
\* a credential: an opaque secret that belongs to one family
Credential(m, i) == <<m, i>>

Pool(m, n) == [i \in 1..n |-> Credential(m, i)]

get_all_keys_for_model(m) == IF m \in DOMAIN key_lists THEN key_lists[m] ELSE <<>>

\* a rotation that forgets to advance the index
StuckKeyIndex(idx, n, rotate) == idx

\* the index get_api_key leaves in current_key_index (model_router.py:262-263)
NextKeyIndex(idx, n, rotate) == IF rotate /\ n > 1 THEN (idx + 1) % n ELSE idx

\* a read of the current key that puts the index back to the first credential
IndexResetOnRead(m, rotate) ==
    IF Len(get_all_keys_for_model(m)) = 0
    THEN current_key_index[m]
    ELSE IF rotate THEN NextKeyIndex(current_key_index[m], Len(get_all_keys_for_model(m)), rotate)
                   ELSE 0

\* the index after get_api_key(m, rotate); unchanged for a family without keys
IndexAfter(m, rotate) ==
    IF Len(get_all_keys_for_model(m)) = 0
    THEN current_key_index[m]
    ELSE NextKeyIndex(current_key_index[m], Len(get_all_keys_for_model(m)), rotate)

\* the value get_api_key(m, rotate) returns: keys[current_idx], or None without keys
KeyReturned(m, rotate) ==
    IF Len(get_all_keys_for_model(m)) = 0
    THEN None
    ELSE get_all_keys_for_model(m)[IndexAfter(m, rotate) + 1]

(***************************************************************************)
(* ModelRouter.load_multiple_keys.  A value of the environment is a       *)
(* record: set (the variable exists), pad (it has whitespace around it)    *)
(* and key (what is left of it after strip(), "" when nothing is).         *)
(***************************************************************************)
Raw(set, pad, key) == [set |-> set, pad |-> pad, key |-> key]

\* os.getenv of a variable that is not set
Unset == Raw(FALSE, FALSE, "")

\* the values a variable, or one comma-separated part of it, can have:
\* 'k1', ' k1 ', 'k2', '' and ' '
RawValues == {Raw(TRUE, FALSE, "k1"), Raw(TRUE, TRUE, "k1"), Raw(TRUE, FALSE, "k2"),
              Raw(TRUE, FALSE, ""), Raw(TRUE, TRUE, "")}

\* 'if main_key:' / 'if numbered_key:': set and not the empty string
Truthy(raw) == raw.set /\ (raw.pad \/ raw.key # "")

\* k.strip()
StripKey(raw) == raw.key

\* model_router.py:96-99: the parts of PREFIX, stripped, the empty ones dropped;
\* main is the list main_key.split(','), <<>> when PREFIX is not set
RECURSIVE MainKeys(_)
MainKeys(main) ==
    IF main = <<>> THEN <<>>
    ELSE IF StripKey(Head(main)) # "" THEN <<StripKey(Head(main))>> \o MainKeys(Tail(main))
    ELSE MainKeys(Tail(main))

\* a loop that reads every numbered variable that is set, gaps or not
RECURSIVE NumberedKeysAll(_, _)
NumberedKeysAll(numbered, i) ==
    IF i > Len(numbered) THEN <<>>
    ELSE IF Truthy(numbered[i]) THEN <<StripKey(numbered[i])>> \o NumberedKeysAll(numbered, i + 1)
    ELSE NumberedKeysAll(numbered, i + 1)

\* model_router.py:102-109: PREFIX_1, PREFIX_2, ... stripped, up to the first one that is
\* not set or is empty
RECURSIVE NumberedKeys(_, _)
NumberedKeys(numbered, i) ==
    IF i > Len(numbered) THEN <<>>
    ELSE IF Truthy(numbered[i]) THEN <<StripKey(numbered[i])>> \o NumberedKeys(numbered, i + 1)
    ELSE <<>>

\* a list that is returned as it was collected
KeepDuplicates(keys) == keys

\* model_router.py:111-117: duplicates removed, the first occurrence kept
RECURSIVE Unique(_)
Unique(keys) ==
    IF keys = <<>> THEN <<>>
    ELSE LET front == Unique(SubSeq(keys, 1, Len(keys) - 1))
             last == keys[Len(keys)]
         IN  IF \E i \in 1..Len(front) : front[i] = last THEN front ELSE Append(front, last)

\* model_router.py:86-119: _load_multiple_keys
load_multiple_keys(e) == Unique(MainKeys(e.main) \o NumberedKeys(e.numbered, 1))

\* the environment of a router whose pools are kl: PREFIX not set, PREFIX_i the i-th key
EnvironOf(kl) ==
    [m \in Families |->
        [main |-> <<>>, numbered |-> [i \in 1..Len(kl[m]) |-> Raw(TRUE, FALSE, kl[m][i])]]]

\* no upstream response has been received
NoResponse == <<0, {}>>

IdleClient ==
    /\ pc = [c \in Calls |-> "idle"]
    /\ model = [c \in Calls |-> "minimax"]
    /\ retry_count = [c \in Calls |-> 0]
    /\ key_rotation_count = [c \in Calls |-> 0]
    /\ resume = [c \in Calls |-> <<0, 0>>]
    /\ received = [c \in Calls |-> 0]
    /\ delivered = [c \in Calls |-> <<>>]
    /\ error = [c \in Calls |-> <<>>]
    /\ log = [c \in Calls |-> <<>>]
    /\ last_response = NoResponse

\* generate_stream has not been started
IdleStream ==
    /\ response = <<>>
    /\ pos = 0
    /\ stage = "idle"
    /\ content_buffer = <<>>
    /\ current_file = None
    /\ files_created = 0
    /\ files_map = <<>>
    /\ events = <<>>
    /\ sandbox_calls = <<>>
    /\ scan_from = 1
    /\ recovery_entered = FALSE
    /\ extracted = 0

\* ModelRouter.__init__: the pools are loaded, every index starts at 0
\* the defaults of model_router.py:69-71
DefaultConfig == [mvp_primary |-> "minimax", general_primary |-> "groq", fallback_model |-> "kimi"]

NoSelection == [called |-> FALSE]

\* get_model_for_task has not been called
IdleSelect ==
    /\ config = DefaultConfig
    /\ selection = NoSelection

\* apply_code_to_sandbox has not been called
IdleApply ==
    /\ e2b_api_key = TRUE
    /\ generated_code = <<>>
    /\ apply_pc = "idle"
    /\ files = <<>>
    /\ packages_result = None
    /\ apply_events = <<>>
    /\ updated = <<>>

InitRouter ==
    /\ key_lists \in {[m \in Families |-> Pool(m, n[m])] : n \in [Families -> 0..MaxKeys]}
    /\ environ = EnvironOf(key_lists)
    /\ constructed = TRUE
    /\ current_key_index = [m \in Families |-> 0]
    /\ lastKey = None
    /\ rotFamily = None
    /\ rotStart = 0
    /\ rotSeen = <<>>
    /\ IdleClient
    /\ IdleStream
    /\ IdleApply
    /\ IdleSelect

\* model_router.get_api_key(m): reads the current credential
get_api_key(m) ==
    /\ current_key_index' = [current_key_index EXCEPT ![m] = IndexAfter(m, FALSE)]
    /\ lastKey' = KeyReturned(m, FALSE)
    /\ rotFamily' = None
    /\ rotStart' = 0
    /\ rotSeen' = <<>>
    /\ UNCHANGED <<environ, constructed, key_lists, clientVars, streamVars>>
    /\ UNCHANGED <<applyVars, selectVars>>

\* model_router.rotate_key(m) == get_api_key(m, rotate=True)
rotate_key(m) ==
    /\ rotFamily = m => Len(rotSeen) < MaxRotationRun
    /\ current_key_index' = [current_key_index EXCEPT ![m] = IndexAfter(m, TRUE)]
    /\ lastKey' = KeyReturned(m, TRUE)
    /\ rotFamily' = m
    /\ rotStart' = IF rotFamily = m THEN rotStart ELSE current_key_index[m]
    /\ rotSeen' = IF rotFamily = m THEN Append(rotSeen, KeyReturned(m, TRUE))
                                   ELSE <<KeyReturned(m, TRUE)>>
    /\ UNCHANGED <<environ, constructed, key_lists, clientVars, streamVars>>
    /\ UNCHANGED <<applyVars, selectVars>>

NextRouter ==
    \/ \E m \in Families : get_api_key(m)
    \/ \E m \in Families : rotate_key(m)

SpecRouter == InitRouter /\ [][NextRouter]_vars

(***************************************************************************)
(* ModelRouter.__init__ on an environment that is still to be read.        *)
(***************************************************************************)
\* the environments of one family: PREFIX with up to MaxParts comma-separated parts, and
\* PREFIX_1 .. PREFIX_MaxNumbered, each set or not
Environments ==
    {[main |-> mn, numbered |-> nb] :
        mn \in UNION {[1..n -> RawValues] : n \in 0..MaxParts},
        nb \in [1..MaxNumbered -> RawValues \cup {Unset}]}

NoEnvironment == [main |-> <<>>, numbered |-> <<>>]

InitLoader ==
    /\ environ \in {[m \in Families |-> IF m = "minimax" THEN e ELSE NoEnvironment] :
                        e \in Environments}
    /\ constructed = FALSE
    /\ key_lists = [m \in Families |-> <<>>]
    /\ current_key_index = [m \in Families |-> 0]
    /\ lastKey = None
    /\ rotFamily = None
    /\ rotStart = 0
    /\ rotSeen = <<>>
    /\ IdleClient
    /\ IdleStream
    /\ IdleApply
    /\ IdleSelect

\* model_router.py:48-60: the three pools are loaded and the indices set to 0
Construct ==
    /\ ~constructed
    /\ constructed' = TRUE
    /\ key_lists' = [m \in Families |-> load_multiple_keys(environ[m])]
    /\ current_key_index' = [m \in Families |-> 0]
    /\ UNCHANGED <<environ, lastKey, rotFamily, rotStart, rotSeen, clientVars, streamVars>>
    /\ UNCHANGED <<applyVars, selectVars>>

NextLoader == Construct

SpecLoader == InitLoader /\ [][NextLoader]_vars

(***************************************************************************)
(* ModelRouter.get_model_for_task(task_type, preferred_model,              *)
(* exclude_models).                                                        *)
(***************************************************************************)
\* TaskType of model_router.py
TaskType == {"mvp_generation", "code_edit", "idea_validation", "market_research",
             "business_planning", "pitch_deck", "chat", "general"}

\* the names a model setting or a preference can hold: the three families or another string
ModelNames == Families \cup {"other"}

\* model_router.py:121-132: the families with credentials, in this order
available_models ==
    SelectSeq(<<"minimax", "groq", "kimi">>, LAMBDA m : Len(key_lists[m]) > 0)

InList(list, x) == \E i \in 1..Len(list) : list[i] = x

\* a preference that is taken although the model is excluded
PreferredIgnoresExclude(preferred, exclude) ==
    preferred # None /\ InList(available_models, preferred)

\* model_router.py:154-157: the preferred model is given, available and not excluded
PreferredUsable(preferred, exclude) ==
    preferred # None /\ InList(available_models, preferred) /\ preferred \notin exclude

\* model_router.py:160-167: MVP and code tasks start from mvp_primary, the others from
\* general_primary
PrimaryFor(task) ==
    IF task \in {"mvp_generation", "code_edit"} THEN config.mvp_primary
                                                ELSE config.general_primary

SecondaryFor(task) ==
    IF task \in {"mvp_generation", "code_edit"} THEN config.general_primary
                                                ELSE config.mvp_primary

\* model_router.py:170, 175, 180: the model is available and not excluded
Usable(m, exclude) == InList(available_models, m) /\ m \notin exclude

\* model_router.py:184-187: the first available model that is not excluded, None without one
AnyAvailable(exclude) ==
    LET ok == SelectSeq(available_models, LAMBDA m : m \notin exclude)
    IN  IF ok = <<>> THEN None ELSE ok[1]

\* model_router.py:134-191
ModelForTask(task, preferred, exclude) ==
    IF PreferredUsable(preferred, exclude) THEN preferred
    ELSE IF Usable(PrimaryFor(task), exclude) THEN PrimaryFor(task)
    ELSE IF Usable(SecondaryFor(task), exclude) THEN SecondaryFor(task)
    ELSE IF Usable(config.fallback_model, exclude) THEN config.fallback_model
    ELSE AnyAvailable(exclude)

\* a router whose pools hold one credential or none and whose three settings hold any name
InitSelect ==
    /\ key_lists \in {[m \in Families |-> Pool(m, n[m])] : n \in [Families -> 0..1]}
    /\ environ = EnvironOf(key_lists)
    /\ constructed = TRUE
    /\ current_key_index = [m \in Families |-> 0]
    /\ lastKey = None
    /\ rotFamily = None
    /\ rotStart = 0
    /\ rotSeen = <<>>
    /\ IdleClient
    /\ IdleStream
    /\ IdleApply
    /\ config \in [mvp_primary : ModelNames, general_primary : ModelNames,
                   fallback_model : ModelNames]
    /\ selection = NoSelection

\* model_router.get_model_for_task(task, preferred, exclude) is called, once in a behaviour:
\* the call changes nothing in the router
get_model_for_task ==
    /\ ~selection.called
    /\ \E task \in TaskType, preferred \in ModelNames \cup {None}, exclude \in SUBSET Families :
        selection' = [called |-> TRUE, task |-> task, preferred |-> preferred,
                      exclude |-> exclude, result |-> ModelForTask(task, preferred, exclude)]
    /\ UNCHANGED config
    /\ UNCHANGED <<routerVars, clientVars, streamVars, applyVars>>

NextSelect == get_model_for_task

SpecSelect == InitSelect /\ [][NextSelect]_vars

(***************************************************************************)
(* MVPBuilderAgent.get_ai_response(prompt, model, system_prompt,           *)
(* stream=True, retry_count, key_rotation_count): one logical call is the  *)
(* chain of recursive frames; the innermost frame holds the arguments.     *)
(***************************************************************************)
\* bodies of upstream error responses, as the set of phrases of interest in error_text.lower()
Bodies == {{}, {"quota exceeded"}, {"too many requests"}}

\* the phrases of mvp_builder_agent.py:261-267
QuotaPhrases == {"exceeded your monthly included credits", "quota exceeded", "rate limit",
                 "too many requests", "insufficient credits"}

\* aiohttp ClientResponse.ok
response_ok(status) == status < 400

is_rate_limit(status) == status = 429

is_quota_exhausted(body) == body \cap QuotaPhrases # {}

\* a quota phrase counts only below status 500
RateLimitedBelow500(status, body) ==
    is_rate_limit(status) \/ (status < 500 /\ is_quota_exhausted(body))

\* mvp_builder_agent.py:270: if is_rate_limit or is_quota_exhausted, inside the not-ok branch
IsRateLimited(status, body) == is_rate_limit(status) \/ is_quota_exhausted(body)

\* model_configs[AIModel.MINIMAX]["retry_on_rate_limit"]
retry_on_rate_limit == TRUE

Min(a, b) == IF a < b THEN a ELSE b

Entry(kind, idx, fam, cls, delay) ==
    [kind |-> kind, idx |-> idx, fam |-> fam, cls |-> cls, delay |-> delay]

AttemptEntry(idx, fam) == Entry("attempt", idx, fam, "", 0)
ResponseEntry(cls) == Entry("response", -1, "", cls, 0)
RotateEntry == Entry("rotate", -1, "", "", 0)
SleepEntry(why, delay) == Entry("sleep", -1, "", why, delay)

Select(seq, kinds) == SelectSeq(seq, LAMBDA e : e.kind \in kinds)

\* the HTTP attempts of call c, in order
Attempts(c) == Select(log[c], {"attempt"})

\* the classified outcomes of the attempts of call c, in order
Responses(c) == Select(log[c], {"response"})

\* a rate-limited frame that rotates although every credential was tried
CanRotateAlways(n, krc) == n > 1

\* a rate-limited frame that gives up rotating one credential early
CanRotateShort(n, krc) == n > 1 /\ krc < n - 2

\* mvp_builder_agent.py:274: more keys to try for this frame
CanRotate(n, krc) == n > 1 /\ krc < n - 1

\* key_rotation_count handed to the frame entered after the rate-limit sleep, kept instead of reset
ResumeKeepRotation(rc, krc) == <<rc + 1, krc>>

\* a delay-based retry that does not count itself
ResumeSameRetry(rc, krc) == <<rc, 0>>

\* mvp_builder_agent.py:299: get_ai_response(..., retry_count + 1, 0)
ResumeAfterRateLimit(rc, krc) == <<rc + 1, 0>>

\* mvp_builder_agent.py:354: get_ai_response(..., retry_count + 1, key_rotation_count)
ResumeAfterInterruption(rc, krc) == <<rc + 1, krc>>

\* a rate-limit delay that doubles with every retry, up to the cap
ExponentialDelay(rc) == Min(2 ^ rc, backoff_cap)

\* mvp_builder_agent.py:293-295: retry_delay = config.get("retry_delay", 5), whatever retry_count is
RateLimitDelay(rc) == retry_delay

\* a backoff that does not grow
FlatDelay(rc) == 1

\* mvp_builder_agent.py:349: min(2 ** retry_count, 10)
InterruptionDelay(rc) == Min(2 ^ rc, backoff_cap)

\* the router calls of one frame entry: rotate_key first when rot, then get_api_key
RouterRead(m, rot) ==
    /\ current_key_index' = [current_key_index EXCEPT ![m] = IndexAfter(m, rot)]
    /\ lastKey' = KeyReturned(m, rot)
    /\ rotFamily' = None
    /\ rotStart' = 0
    /\ rotSeen' = <<>>
    /\ UNCHANGED <<environ, constructed, key_lists, streamVars>>

\* a family the frame of a failed call moves on to
NextFamilyOf(m) == IF m = "minimax" THEN "groq" ELSE "kimi"

\* the family of the frames a call recurses into: always the model it was given
RetryModel(m) == m

\* mvp_builder_agent.py:210-254: a frame reads the current credential and posts the request
BeginFrame(c, m, rc, krc, rot, before) ==
    /\ RouterRead(m, rot)
    /\ pc' = [pc EXCEPT ![c] = "posted"]
    /\ model' = [model EXCEPT ![c] = m]
    /\ retry_count' = [retry_count EXCEPT ![c] = rc]
    /\ key_rotation_count' = [key_rotation_count EXCEPT ![c] = krc]
    /\ received' = [received EXCEPT ![c] = 0]
    /\ log' = [log EXCEPT ![c] = @ \o before \o <<AttemptEntry(IndexAfter(m, rot), m)>>]

\* the caller starts a logical call: get_ai_response(prompt, AIModel.MINIMAX, stream=True)
StartCall(c) ==
    /\ \A d \in Calls : pc[d] = "idle"
    /\ \E m \in AIModel : BeginFrame(c, m, 0, 0, FALSE, <<>>)
    /\ UNCHANGED last_response
    /\ UNCHANGED <<resume, delivered, error>>
    /\ UNCHANGED <<applyVars, selectVars>>

\* mvp_builder_agent.py:256, 310: the response is ok, the frame starts reading the stream
ResponseOk(c) ==
    /\ pc[c] = "posted"
    /\ \E status \in Statuses, body \in Bodies :
        /\ response_ok(status)
        /\ last_response' = <<status, body>>
        /\ pc' = [pc EXCEPT ![c] = "streaming"]
        /\ log' = [log EXCEPT ![c] = Append(@, ResponseEntry("ok"))]
    /\ UNCHANGED <<streamVars, routerVars, model, retry_count, key_rotation_count, resume, received,
                   delivered, error>>
    /\ UNCHANGED <<applyVars, selectVars>>

\* mvp_builder_agent.py:270-289: rate limited with keys left: rotate and recurse at once
RateLimitedRotate(c) ==
    /\ pc[c] = "posted"
    /\ \E status \in Statuses, body \in Bodies :
        /\ ~response_ok(status)
        /\ last_response' = <<status, body>>
        /\ IsRateLimited(status, body)
        /\ CanRotate(Len(get_all_keys_for_model(model[c])), key_rotation_count[c])
        /\ BeginFrame(c, RetryModel(model[c]), retry_count[c], key_rotation_count[c] + 1, TRUE,
                      <<ResponseEntry("rate_limited"), RotateEntry>>)
    /\ UNCHANGED <<resume, delivered, error>>
    /\ UNCHANGED <<applyVars, selectVars>>

\* mvp_builder_agent.py:292-295: rate limited, keys exhausted: sleep retry_delay
RateLimitedSleep(c) ==
    /\ pc[c] = "posted"
    /\ \E status \in Statuses, body \in Bodies :
        /\ ~response_ok(status)
        /\ last_response' = <<status, body>>
        /\ IsRateLimited(status, body)
        /\ ~CanRotate(Len(get_all_keys_for_model(model[c])), key_rotation_count[c])
        /\ retry_on_rate_limit /\ retry_count[c] < max_retries
        /\ pc' = [pc EXCEPT ![c] = "sleeping"]
        /\ resume' = [resume EXCEPT ![c] = ResumeAfterRateLimit(retry_count[c], key_rotation_count[c])]
        /\ log' = [log EXCEPT ![c] = @ \o <<ResponseEntry("rate_limited"),
                                           SleepEntry("rate_limited", RateLimitDelay(retry_count[c]))>>]
    /\ UNCHANGED <<streamVars, routerVars, model, retry_count, key_rotation_count, received, delivered, error>>
    /\ UNCHANGED <<applyVars, selectVars>>

\* the classification the error branch logs
ErrorClass(status, body) ==
    IF IsRateLimited(status, body) THEN "rate_limited" ELSE "fatal"

\* mvp_builder_agent.py:307-308, 373-387: the error is raised, wrapped once, re-raised by the outer frames
ResponseErrorRaise(c) ==
    /\ pc[c] = "posted"
    /\ \E status \in Statuses, body \in Bodies :
        /\ ~response_ok(status)
        /\ last_response' = <<status, body>>
        /\ \/ ~IsRateLimited(status, body)
           \/ /\ ~CanRotate(Len(get_all_keys_for_model(model[c])), key_rotation_count[c])
              /\ ~(retry_on_rate_limit /\ retry_count[c] < max_retries)
        /\ log' = [log EXCEPT ![c] = Append(@, ResponseEntry(ErrorClass(status, body)))]
    /\ pc' = [pc EXCEPT ![c] = "raised"]
    /\ error' = [error EXCEPT ![c] = Append(@, "AllKeysFailed")]
    /\ UNCHANGED <<streamVars, routerVars, model, retry_count, key_rotation_count, resume, received, delivered>>
    /\ UNCHANGED <<applyVars, selectVars>>

\* mvp_builder_agent.py:367-371: session.post raises a ClientError: no retry
ConnectFailed(c) ==
    /\ pc[c] = "posted"
    /\ pc' = [pc EXCEPT ![c] = "raised"]
    /\ log' = [log EXCEPT ![c] = Append(@, ResponseEntry("connect_error"))]
    /\ error' = [error EXCEPT ![c] =
            Append(@, IF Len(Attempts(c)) = 1 THEN "NetworkError" ELSE "AllKeysFailed")]
    /\ UNCHANGED last_response
    /\ UNCHANGED <<streamVars, routerVars, model, retry_count, key_rotation_count, resume, received, delivered>>
    /\ UNCHANGED <<applyVars, selectVars>>

\* asyncio.sleep returns: the next frame is entered with the arguments of the recursive call
WakeUp(c) ==
    /\ pc[c] = "sleeping"
    /\ BeginFrame(c, RetryModel(model[c]), resume[c][1], resume[c][2], FALSE, <<>>)
    /\ UNCHANGED last_response
    /\ UNCHANGED <<resume, delivered, error>>
    /\ UNCHANGED <<applyVars, selectVars>>

\* the delta every frame above passes on with "yield chunk"
Delta(attempt, k) == <<attempt, k>>

\* mvp_builder_agent.py:314-329: one SSE frame with content is yielded to the caller
StreamDelta(c) ==
    /\ pc[c] = "streaming"
    /\ received[c] < MaxDeltas
    /\ received' = [received EXCEPT ![c] = @ + 1]
    /\ delivered' = [delivered EXCEPT ![c] = Append(@, Delta(Len(Attempts(c)), received[c] + 1))]
    /\ UNCHANGED last_response
    /\ UNCHANGED <<streamVars, routerVars, pc, model, retry_count, key_rotation_count, resume, error, log>>
    /\ UNCHANGED <<applyVars, selectVars>>

\* mvp_builder_agent.py:318-320: data: [DONE]
StreamDone(c) ==
    /\ pc[c] = "streaming"
    /\ received[c] = MaxDeltas
    /\ pc' = [pc EXCEPT ![c] = "done"]
    /\ UNCHANGED last_response
    /\ UNCHANGED <<streamVars, routerVars, model, retry_count, key_rotation_count, resume, received,
                   delivered, error, log>>
    /\ UNCHANGED <<applyVars, selectVars>>

\* mvp_builder_agent.py:346-356: the stream breaks, retries are left: back off, same key
StreamInterruptedRetry(c) ==
    /\ pc[c] = "streaming"
    /\ retry_count[c] < max_retries
    /\ pc' = [pc EXCEPT ![c] = "sleeping"]
    /\ resume' = [resume EXCEPT ![c] = ResumeAfterInterruption(retry_count[c], key_rotation_count[c])]
    /\ log' = [log EXCEPT ![c] = @ \o <<ResponseEntry("transient"),
                                       SleepEntry("transient", InterruptionDelay(retry_count[c]))>>]
    /\ UNCHANGED last_response
    /\ UNCHANGED <<streamVars, routerVars, model, retry_count, key_rotation_count, received, delivered, error>>
    /\ UNCHANGED <<applyVars, selectVars>>

\* mvp_builder_agent.py:357-359, 367-387: the stream breaks, no retry left
StreamInterruptedRaise(c) ==
    /\ pc[c] = "streaming"
    /\ ~(retry_count[c] < max_retries)
    /\ pc' = [pc EXCEPT ![c] = "raised"]
    /\ log' = [log EXCEPT ![c] = Append(@, ResponseEntry("transient"))]
    /\ error' = [error EXCEPT ![c] =
            Append(@, IF Len(Attempts(c)) = 1 THEN "NetworkError" ELSE "AllKeysFailed")]
    /\ UNCHANGED last_response
    /\ UNCHANGED <<streamVars, routerVars, model, retry_count, key_rotation_count, resume, received, delivered>>
    /\ UNCHANGED <<applyVars, selectVars>>

\* mvp_builder_agent.py:249-254, 314, 373-387: the session's total timeout fires while the
\* request is awaited or the stream is read; asyncio.TimeoutError is no aiohttp.ClientError,
\* so it passes the inner handler and the outer one raises the terminal error
TimedOut(c) ==
    /\ pc[c] \in {"posted", "streaming"}
    /\ pc' = [pc EXCEPT ![c] = "raised"]
    /\ log' = [log EXCEPT ![c] = Append(@, ResponseEntry("timeout"))]
    /\ error' = [error EXCEPT ![c] = Append(@, "AllKeysFailed")]
    /\ UNCHANGED last_response
    /\ UNCHANGED <<streamVars, routerVars, model, retry_count, key_rotation_count, resume, received, delivered>>
    /\ UNCHANGED <<applyVars, selectVars>>

\* the caller is done with the generator; the next logical call starts afresh
Return(c) ==
    /\ pc[c] \in {"done", "raised"}
    /\ pc' = [pc EXCEPT ![c] = "idle"]
    /\ retry_count' = [retry_count EXCEPT ![c] = 0]
    /\ key_rotation_count' = [key_rotation_count EXCEPT ![c] = 0]
    /\ resume' = [resume EXCEPT ![c] = <<0, 0>>]
    /\ received' = [received EXCEPT ![c] = 0]
    /\ delivered' = [delivered EXCEPT ![c] = <<>>]
    /\ error' = [error EXCEPT ![c] = <<>>]
    /\ log' = [log EXCEPT ![c] = <<>>]
    /\ last_response' = NoResponse
    /\ UNCHANGED <<streamVars, routerVars, model>>
    /\ UNCHANGED <<applyVars, selectVars>>

\* MVPBuilderAgent.__init__ requires at least one MiniMax key; the router is freshly loaded
InitClient ==
    /\ key_lists \in {[m \in Families |-> Pool(m, IF m = "minimax" THEN n ELSE 1)] : n \in 1..MaxKeys}
    /\ environ = EnvironOf(key_lists)
    /\ constructed = TRUE
    /\ current_key_index = [m \in Families |-> 0]
    /\ lastKey = None
    /\ rotFamily = None
    /\ rotStart = 0
    /\ rotSeen = <<>>
    /\ IdleClient
    /\ IdleStream
    /\ IdleApply
    /\ IdleSelect

NextClient ==
    \/ \E c \in Calls : StartCall(c)
    \/ \E c \in Calls : ResponseOk(c)
    \/ \E c \in Calls : RateLimitedRotate(c)
    \/ \E c \in Calls : RateLimitedSleep(c)
    \/ \E c \in Calls : ResponseErrorRaise(c)
    \/ \E c \in Calls : ConnectFailed(c)
    \/ \E c \in Calls : WakeUp(c)
    \/ \E c \in Calls : StreamDelta(c)
    \/ \E c \in Calls : StreamDone(c)
    \/ \E c \in Calls : StreamInterruptedRetry(c)
    \/ \E c \in Calls : StreamInterruptedRaise(c)
    \/ \E c \in Calls : TimedOut(c)
    \/ \E c \in Calls : Return(c)

SpecClient == InitClient /\ [][NextClient]_vars

\* a logical call is started while another one may be waiting at one of its await points:
\* model_router is a module-level singleton (model_router.py:364-365) and every call reads
\* and rotates its current_key_index
StartInterleaved(c) ==
    /\ pc[c] = "idle"
    /\ \E m \in AIModel : BeginFrame(c, m, 0, 0, FALSE, <<>>)
    /\ UNCHANGED last_response
    /\ UNCHANGED <<resume, delivered, error>>
    /\ UNCHANGED <<applyVars, selectVars>>

\* two logical calls, each made once and followed until it ends or enters its first
\* delay, whose steps interleave at their await points
NextInterleaved ==
    \/ \E c \in Calls : StartInterleaved(c)
    \/ \E c \in Calls : ResponseOk(c)
    \/ \E c \in Calls : RateLimitedRotate(c)
    \/ \E c \in Calls : RateLimitedSleep(c)
    \/ \E c \in Calls : ResponseErrorRaise(c)
    \/ \E c \in Calls : StreamDelta(c)
    \/ \E c \in Calls : StreamDone(c)

SpecInterleaved == InitClient /\ [][NextInterleaved]_vars

\* the event loop runs the call for as long as it has a step to take: a response or a
\* failure arrives for every request (the session carries a total timeout), every sleep
\* ends, and the caller consumes the generator
SpecClientFair == SpecClient /\ WF_clientVars(NextClient)

(***************************************************************************)
(* Text: a Python str is a sequence of one-character strings.              *)
(***************************************************************************)
\* '<file path="', the literal head of file_start_pattern
OpenHead == <<"<", "f", "i", "l", "e", " ", "p", "a", "t", "h", "=", "\"">>

\* '</file>', file_end_pattern
CloseTag == <<"<", "/", "f", "i", "l", "e", ">">>

\* the characters str.strip() removes
Whitespace == {" ", "\n", "\t"}

Least(S) == CHOOSE x \in S : \A y \in S : x <= y

Greatest(S) == CHOOSE x \in S : \A y \in S : y <= x

\* s[from:] in 1-based positions: the suffix that starts at position from
Tail_(s, from) == SubSeq(s, from, Len(s))

\* pat occurs in s at position p
MatchesAt(s, pat, p) ==
    /\ p >= 1
    /\ p + Len(pat) - 1 <= Len(s)
    /\ \A k \in 1..Len(pat) : s[p + k - 1] = pat[k]

\* re.search / str.find of a literal: the first position >= from where pat occurs, 0 when none
Find(s, pat, from) ==
    LET S == {p \in from..(Len(s) - Len(pat) + 1) : MatchesAt(s, pat, p)}
    IN  IF S = {} THEN 0 ELSE Least(S)

\* str.strip() that leaves the text as it is
NoStrip(s) == s

\* str.strip(): leading and trailing whitespace removed
Strip(s) ==
    LET keep == {i \in 1..Len(s) : s[i] \notin Whitespace}
    IN  IF keep = {} THEN <<>> ELSE SubSeq(s, Least(keep), Greatest(keep))

\* the position of the '>' that ends a match of file_start_pattern beginning at p, 0 when
\* '<file path="([^"]+)">' does not match at p
OpenMatchEnd(s, p) ==
    IF ~MatchesAt(s, OpenHead, p) THEN 0
    ELSE LET q == Find(s, <<"\"">>, p + Len(OpenHead))
         IN  IF q > p + Len(OpenHead) /\ q < Len(s) /\ s[q + 1] = ">" THEN q + 1 ELSE 0

\* file_start_pattern.search(s): the leftmost match, with group(1) and match.end()
file_start_search(s) ==
    LET S == {p \in 1..Len(s) : s[p] = "<" /\ OpenMatchEnd(s, p) > 0}
    IN  IF S = {} THEN [found |-> FALSE, path |-> <<>>, end |-> 0]
        ELSE [found |-> TRUE,
              path |-> SubSeq(s, Least(S) + Len(OpenHead), OpenMatchEnd(s, Least(S)) - 2),
              end |-> OpenMatchEnd(s, Least(S))]

UpperCase == <<"A", "B", "C", "D", "E", "F", "G", "H", "I", "J", "K", "L", "M",
               "N", "O", "P", "Q", "R", "S", "T", "U", "V", "W", "X", "Y", "Z">>

LowerCase == <<"a", "b", "c", "d", "e", "f", "g", "h", "i", "j", "k", "l", "m",
               "n", "o", "p", "q", "r", "s", "t", "u", "v", "w", "x", "y", "z">>

Digits == {"0", "1", "2", "3", "4", "5", "6", "7", "8", "9"}

\* the characters of the regex class \w
WordChars == {UpperCase[i] : i \in 1..26} \cup {LowerCase[i] : i \in 1..26} \cup Digits \cup {"_"}

\* str.lower() of one character
Lower(ch) ==
    IF \E i \in 1..26 : UpperCase[i] = ch
    THEN LowerCase[CHOOSE i \in 1..26 : UpperCase[i] = ch]
    ELSE ch

\* str.lower(), and what re.IGNORECASE compares
LowerAll(s) == [i \in 1..Len(s) |-> Lower(s[i])]

\* file_path.split('.')[-1].lower()
Extension(path) ==
    LET dots == {i \in 1..Len(path) : path[i] = "."}
        last == IF dots = {} THEN path ELSE Tail_(path, Greatest(dots) + 1)
    IN  LowerAll(last)

\* language_map.get(ext, 'plaintext') of main.py:1347-1354
Language(path) ==
    LET ext == Extension(path)
    IN  CASE ext \in {<<"j", "s">>, <<"j", "s", "x">>} -> "javascript"
          [] ext \in {<<"t", "s">>, <<"t", "s", "x">>} -> "typescript"
          [] ext = <<"p", "y">> -> "python"
          [] ext = <<"h", "t", "m", "l">> -> "html"
          [] ext = <<"c", "s", "s">> -> "css"
          [] ext = <<"j", "s", "o", "n">> -> "json"
          [] ext = <<"m", "d">> -> "markdown"
          [] ext \in {<<"y", "m", "l">>, <<"y", "a", "m", "l">>} -> "yaml"
          [] ext = <<"s", "h">> -> "shell"
          [] OTHER -> "plaintext"

(***************************************************************************)
(* main.py stream_mvp_generation.generate_stream: the incremental          *)
(* extractor.  files_map is a dict: a sequence of <<path, content>> in     *)
(* insertion order.                                                        *)
(***************************************************************************)
FileEvent(path, status, content, language) ==
    [type |-> "file_operation", path |-> path, status |-> status, content |-> content,
     language |-> language]

\* files_map[path] = content
DictPut(map, path, content) ==
    IF \E i \in 1..Len(map) : map[i][1] = path
    THEN [i \in 1..Len(map) |-> IF map[i][1] = path THEN <<path, content>> ELSE map[i]]
    ELSE Append(map, <<path, content>>)

\* a membership test that never finds the path
DictHasNothing(map, path) == FALSE

\* path in files_map
DictHas(map, path) == \E i \in 1..Len(map) : map[i][1] = path

\* list(files_map.keys())
DictKeys(map) == [i \in 1..Len(map) |-> map[i][1]]

\* a chunk that replaces the buffer instead of extending it
ChunkOnly(buf, chunk) == chunk

\* main.py:1325: content_buffer += chunk
AppendChunk(buf, chunk) == buf \o chunk

\* the text before the close tag taken as it is
UntrimmedContent(buf, end_tag_index) == SubSeq(buf, 1, end_tag_index)

\* main.py:1378: content_buffer[start_index:end_tag_index].strip(), end_tag_index 0-based
FileContent(buf, end_tag_index) == Strip(SubSeq(buf, 1, end_tag_index))

\* a counter that also counts the files whose write raised
CreatedAnyway(created, ok) == created + 1

\* main.py:1386-1393: files_created += 1 is reached only when update_sandbox_file returns
CreatedAfterWrite(created, ok) == IF ok THEN created + 1 ELSE created

\* a cut that leaves the last character of the delimiter in the buffer
ConsumeButLast(buf, end) == Tail_(buf, end)

\* main.py:1407: content_buffer = content_buffer[end_match.end():], end the 1-based
\* position of the last character of the match
Consume(buf, end) == Tail_(buf, end + 1)

\* an open tag that is left in the buffer with all that came before it
KeepBuffer(buf, end) == buf

\* main.py:1367-1368: content_buffer = content_buffer[match.end():]
ConsumeOpenTag(buf, end) == Tail_(buf, end + 1)

\* main.py:1339-1411: the while loop over the buffer; ok tells whether update_sandbox_file
\* returns (TRUE) or raises (FALSE) for the files this run of the loop completes
RECURSIVE ParseBuffer(_, _)
ParseBuffer(st, ok) ==
    IF st.current_file = None
    THEN LET m == file_start_search(st.content_buffer)
         IN  IF m.found
             THEN ParseBuffer(
                    [st EXCEPT !.current_file = m.path,
                               !.events = Append(@, FileEvent(m.path, "processing", <<>>,
                                                              Language(m.path))),
                               !.content_buffer = ConsumeOpenTag(@, m.end)], ok)
             ELSE st
    ELSE LET e == Find(st.content_buffer, CloseTag, 1)
             file_content == FileContent(st.content_buffer, e - 1)
         IN  IF e > 0
             THEN ParseBuffer(
                    [st EXCEPT !.files_map = DictPut(@, st.current_file, file_content),
                               !.sandbox_calls = Append(@, st.current_file),
                               !.files_created = CreatedAfterWrite(@, ok),
                               !.events = Append(@,
                                    IF ok THEN FileEvent(st.current_file, "completed", file_content,
                                                         Language(st.current_file))
                                          ELSE FileEvent(st.current_file, "error", <<>>, "")),
                               !.content_buffer = Consume(@, e + Len(CloseTag) - 1),
                               !.current_file = None], ok)
             ELSE st

(***************************************************************************)
(* main.py:1420-1559: the fallback extraction that follows the stream.     *)
(***************************************************************************)
\* '<file path=', the text main.py:1426-1427 looks for and counts
OpenMark == SubSeq(OpenHead, 1, Len(OpenHead) - 1)

HtmlEnd == <<"<", "/", "h", "t", "m", "l", ">">>
Doctype == <<"<", "!", "d", "o", "c", "t", "y", "p", "e", " ", "h", "t", "m", "l", ">">>
IndexHtml == <<"i", "n", "d", "e", "x", ".", "h", "t", "m", "l">>
StylesCss == <<"s", "t", "y", "l", "e", "s", ".", "c", "s", "s">>
ScriptJs == <<"s", "c", "r", "i", "p", "t", ".", "j", "s">>
DotHtml == <<".", "h", "t", "m", "l">>
DotJs == <<".", "j", "s">>
StyleOpen == <<"<", "s", "t", "y", "l", "e">>
StyleClose == <<"<", "/", "s", "t", "y", "l", "e", ">">>
ScriptOpen == <<"<", "s", "c", "r", "i", "p", "t">>
ScriptClose == <<"<", "/", "s", "c", "r", "i", "p", "t", ">">>
Newline == <<"\n">>

\* the positions where pat occurs in s
Occurrences(s, pat) == {p \in 1..(Len(s) - Len(pat) + 1) : MatchesAt(s, pat, p)}

\* str.count(pat) for a pat that cannot overlap itself (every pat counted here has this shape)
Count(s, pat) == Cardinality(Occurrences(s, pat))

\* str.endswith(suffix)
EndsWith(s, suffix) == MatchesAt(s, suffix, Len(s) - Len(suffix) + 1)

Repeat(ch, n) == [i \in 1..n |-> ch]

\* main.py:1425-1430: more '<file path=' than '</file>' in the whole response
incomplete_xml(full) ==
    /\ Find(full, OpenMark, 1) > 0
    /\ Count(full, OpenMark) > Count(full, CloseTag)

\* a file_pattern whose content stops at the next open tag as well
XmlMatchAnchored(full, from) ==
    LET S == {p \in from..Len(full) : full[p] = "<" /\ OpenMatchEnd(full, p) > 0}
        p == Least(S)
        e == OpenMatchEnd(full, p)
        c == Find(full, CloseTag, e + 1)
        o == Find(full, OpenHead, e + 1)
        stop == IF c > 0 /\ (o = 0 \/ c < o) THEN c ELSE IF o > 0 THEN o ELSE Len(full) + 1
    IN  IF S = {} THEN [found |-> FALSE, path |-> <<>>, content |-> <<>>, next |-> from]
        ELSE [found |-> TRUE,
              path |-> SubSeq(full, p + Len(OpenHead), e - 2),
              content |-> SubSeq(full, e + 1, stop - 1),
              next |-> IF stop = c THEN c + Len(CloseTag) ELSE stop]

\* main.py:1435-1436: the next match of '<file path="([^"]+)">(.*?)(?:</file>|$)' (DOTALL)
\* at or after position from: group(1), group(2) and where finditer goes on.  Without a
\* '</file>' the content runs to the end of the text ('$' also matches before one final
\* newline, which strip() removes from group(2) anyway).
XmlMatch(full, from) ==
    LET S == {p \in from..Len(full) : full[p] = "<" /\ OpenMatchEnd(full, p) > 0}
        p == Least(S)
        e == OpenMatchEnd(full, p)
        c == Find(full, CloseTag, e + 1)
    IN  IF S = {} THEN [found |-> FALSE, path |-> <<>>, content |-> <<>>, next |-> from]
        ELSE [found |-> TRUE,
              path |-> SubSeq(full, p + Len(OpenHead), e - 2),
              content |-> SubSeq(full, e + 1, IF c > 0 THEN c - 1 ELSE Len(full)),
              next |-> IF c > 0 THEN c + Len(CloseTag) ELSE Len(full) + 1]

\* a completion that puts the closing tag or braces right after the content, without '\n'
CompleteInline(path, content) ==
    IF EndsWith(path, DotHtml) /\ ~EndsWith(Strip(content), HtmlEnd)
    THEN content \o HtmlEnd
    ELSE IF EndsWith(path, DotJs) /\ Count(content, <<"{">>) > Count(content, <<"}">>)
         THEN content \o Repeat("}", Count(content, <<"{">>) - Count(content, <<"}">>))
         ELSE content

\* main.py:1444-1452: a truncated .html or .js file is completed
CompleteTruncated(path, content) ==
    IF EndsWith(path, DotHtml) /\ ~EndsWith(Strip(content), HtmlEnd)
    THEN content \o Newline \o HtmlEnd
    ELSE IF EndsWith(path, DotJs) /\ Count(content, <<"{">>) > Count(content, <<"}">>)
         THEN content \o Newline \o Repeat("}", Count(content, <<"{">>) - Count(content, <<"}">>))
         ELSE content

\* main.py:1464-1466: the shorter language_map of the fallback
RecoveryLanguage(path) ==
    LET ext == Extension(path)
    IN  CASE ext = <<"j", "s">> -> "javascript"
          [] ext = <<"h", "t", "m", "l">> -> "html"
          [] ext = <<"c", "s", "s">> -> "css"
          [] ext = <<"m", "d">> -> "markdown"
          [] OTHER -> "plaintext"

\* main.py:1475-1480: re.search(r'<!DOCTYPE html>.*', DOTALL | IGNORECASE), completed;
\* <<>> stands for "no match" (a match is never empty)
HtmlFallback(full) ==
    LET p == Find(LowerAll(full), Doctype, 1)
        html_content == Tail_(full, p)
    IN  IF p = 0 THEN <<>>
        ELSE IF EndsWith(Strip(html_content), HtmlEnd) THEN html_content
             ELSE html_content \o Newline \o HtmlEnd

\* re.search(r'<tag[^>]*>(.*?)</tag>', DOTALL | IGNORECASE): [found, group(1)]
TagBlock(full, open, close) ==
    LET low == LowerAll(full)
        S == {p \in Occurrences(low, open) :
                LET q == Find(low, <<">">>, p + Len(open))
                IN  q > 0 /\ Find(low, close, q + 1) > 0}
        p == Least(S)
        q == Find(low, <<">">>, p + Len(open))
    IN  IF S = {} THEN [found |-> FALSE, inner |-> <<>>]
        ELSE [found |-> TRUE, inner |-> SubSeq(full, q + 1, Find(low, close, q + 1) - 1)]

\* the first position >= from whose character is not in the class, Len(s) + 1 when none
SkipClass(s, from, class) ==
    LET S == {i \in from..Len(s) : s[i] \notin class}
    IN  IF S = {} THEN Len(s) + 1 ELSE Least(S)

\* the end of a match of css_pattern that begins at p, 0 when it does not match there:
\* '/\*[^*]*\*+(?:[^/*][^*]*\*+)*/' (a comment up to the first '*/') or
\* '(?:^|\n)\s*(?:[.#]?[\w-]+|:root)\s*{[^}]*}' under re.MULTILINE
CssMatchEnd(s, p) ==
    IF MatchesAt(s, <<"/", "*">>, p)
    THEN LET c == Find(s, <<"*", "/">>, p + 2) IN IF c > 0 THEN c + 1 ELSE 0
    ELSE IF ~(p = 1 \/ s[p - 1] = "\n" \/ s[p] = "\n") THEN 0
    ELSE LET a == SkipClass(s, p, Whitespace)
             b == IF a <= Len(s) /\ s[a] \in {".", "#"} THEN a + 1 ELSE a
             w == SkipClass(s, b, WordChars \cup {"-"})
             sel == IF w > b THEN w
                    ELSE IF MatchesAt(s, <<":", "r", "o", "o", "t">>, a) THEN a + 5 ELSE 0
             o == IF sel = 0 THEN 0 ELSE SkipClass(s, sel, Whitespace)
             z == IF o = 0 \/ o > Len(s) THEN 0
                  ELSE IF s[o] # "{" THEN 0 ELSE Find(s, <<"}">>, o + 1)
         IN  z

\* the heads of js_pattern: where the head that begins at p ends (exclusive), 0 when none
JsHeadEnd(s, p) ==
    LET kw(word) ==
            LET a == p + Len(word)
                b == SkipClass(s, a, Whitespace)
                c == SkipClass(s, b, WordChars)
                d == SkipClass(s, c, Whitespace)
            IN  IF MatchesAt(s, word, p) /\ b > a /\ c > b /\ d <= Len(s) /\ s[d] = "="
                THEN d + 1 ELSE 0
        fn == LET word == <<"f", "u", "n", "c", "t", "i", "o", "n">>
                  a == p + Len(word)
                  b == SkipClass(s, a, Whitespace)
                  c == SkipClass(s, b, WordChars)
              IN  IF MatchesAt(s, word, p) /\ b > a /\ c > b THEN c ELSE 0
        doc == LET word == <<"d", "o", "c", "u", "m", "e", "n", "t", ".", "a", "d", "d",
                             "E", "v", "e", "n", "t", "L", "i", "s", "t", "e", "n", "e", "r">>
               IN  IF MatchesAt(s, word, p) THEN p + Len(word) ELSE 0
    IN  IF doc > 0 THEN doc
        ELSE IF fn > 0 THEN fn
        ELSE IF kw(<<"c", "o", "n", "s", "t">>) > 0 THEN kw(<<"c", "o", "n", "s", "t">>)
        ELSE IF kw(<<"l", "e", "t">>) > 0 THEN kw(<<"l", "e", "t">>)
        ELSE kw(<<"v", "a", "r">>)

\* the end of a match of js_pattern that begins at p: the head, then '[^;]*;?'
JsMatchEnd(s, p) ==
    LET h == JsHeadEnd(s, p)
        semi == Find(s, <<";">>, h)
    IN  IF h = 0 THEN 0 ELSE IF semi > 0 THEN semi ELSE Len(s)

\* the end of the match of css_pattern or js_pattern that begins at p, 0 when none
PatternEnd(pattern, s, p) == IF pattern = "css_pattern" THEN CssMatchEnd(s, p) ELSE JsMatchEnd(s, p)

\* '\n'.join(re.findall(pattern, s))
RECURSIVE JoinMatches(_, _, _, _)
JoinMatches(s, from, pattern, first) ==
    LET S == {p \in from..Len(s) : PatternEnd(pattern, s, p) > 0}
        p == Least(S)
    IN  IF S = {} THEN <<>>
        ELSE (IF first THEN <<>> ELSE Newline) \o SubSeq(s, p, PatternEnd(pattern, s, p))
                \o JoinMatches(s, PatternEnd(pattern, s, p) + 1, pattern, FALSE)

\* main.py:1498-1508: css_content, <<>> when there is none (an empty css_content is falsy)
CssFallback(full) ==
    IF TagBlock(full, StyleOpen, StyleClose).found
    THEN Strip(TagBlock(full, StyleOpen, StyleClose).inner)
    ELSE JoinMatches(full, 1, "css_pattern", TRUE)

\* main.py:1527-1537: js_content, <<>> when there is none
JsFallback(full) ==
    IF TagBlock(full, ScriptOpen, ScriptClose).found
    THEN Strip(TagBlock(full, ScriptOpen, ScriptClose).inner)
    ELSE JoinMatches(full, 1, "js_pattern", TRUE)

(***************************************************************************)
(* The responses the model streams: up to MaxItems pieces, each a          *)
(* well-formed file region after some prose, an open tag that is never     *)
(* closed, or a stray delimiter.                                           *)
(***************************************************************************)
PathA == <<"a", ".", "j", "s">>
PathB == <<"b", ".", "c", "s", "s">>
AppJs == <<"a", "p", "p", ".", "j", "s">>
FunctionF == <<"f", "u", "n", "c", "t", "i", "o", "n", " ", "f", "(", ")", "{">>

OpenTag(path) == OpenHead \o path \o <<"\"", ">">>

Piece(kind, prose, path, content) ==
    [kind |-> kind, prose |-> prose, path |-> path, content |-> content]

Pieces ==
    { Piece("region", <<" ">>, PathA, <<" ", "x", " ">>),
      Piece("region", <<"<">>, PathB, <<"y">>),
      Piece("open", <<>>, AppJs, FunctionF),
      Piece("open", <<>>, PathB, <<"y">>),
      Piece("text", <<>>, <<>>, CloseTag),
      Piece("text", <<>>, <<>>, OpenHead) }

PieceText(it) ==
    CASE it.kind = "region" -> it.prose \o OpenTag(it.path) \o it.content \o CloseTag
      [] it.kind = "open" -> it.prose \o OpenTag(it.path) \o it.content
      [] OTHER -> it.content

RECURSIVE Flatten(_)
Flatten(items) == IF items = <<>> THEN <<>> ELSE PieceText(Head(items)) \o Flatten(Tail(items))

\* the whole text of the response
Text == Flatten(response)

\* main.py:1312, 1326: the text received so far
full_ai_response == SubSeq(Text, 1, pos)

\* the local state of the extractor, as ParseBuffer reads and returns it
Cursor ==
    [content_buffer |-> content_buffer, current_file |-> current_file,
     files_created |-> files_created, files_map |-> files_map, events |-> events,
     sandbox_calls |-> sandbox_calls]

SetCursor(st) ==
    /\ content_buffer' = st.content_buffer
    /\ current_file' = st.current_file
    /\ files_created' = st.files_created
    /\ files_map' = st.files_map
    /\ events' = st.events
    /\ sandbox_calls' = st.sandbox_calls

\* main.py:1306-1317: the state before the first chunk
FreshCursor ==
    [content_buffer |-> <<>>, current_file |-> None, files_created |-> 0, files_map |-> <<>>,
     events |-> <<>>, sandbox_calls |-> <<>>]

\* generate_stream is started on a response the model is about to stream
InitStream ==
    /\ key_lists = [m \in Families |-> Pool(m, 1)]
    /\ environ = EnvironOf(key_lists)
    /\ constructed = TRUE
    /\ current_key_index = [m \in Families |-> 0]
    /\ lastKey = None
    /\ rotFamily = None
    /\ rotStart = 0
    /\ rotSeen = <<>>
    /\ IdleClient
    /\ response \in UNION {[1..n -> Pieces] : n \in 0..MaxItems}
    /\ pos = 0
    /\ stage = "streaming"
    /\ content_buffer = <<>>
    /\ current_file = None
    /\ files_created = 0
    /\ files_map = <<>>
    /\ events = <<>>
    /\ sandbox_calls = <<>>
    /\ scan_from = 1
    /\ recovery_entered = FALSE
    /\ extracted = 0
    /\ IdleApply
    /\ IdleSelect

\* the lengths a next chunk can have: up to MaxChunk characters, or all the rest
ChunkSizes == {n \in 1..(Len(Text) - pos) : n <= MaxChunk \/ n = Len(Text) - pos}

\* main.py:1319-1411: one chunk arrives and the buffer is parsed
ReceiveChunk ==
    /\ stage = "streaming"
    /\ \E n \in ChunkSizes, ok \in BOOLEAN :
        /\ pos' = pos + n
        /\ SetCursor(ParseBuffer(
                [Cursor EXCEPT !.content_buffer =
                    AppendChunk(content_buffer, SubSeq(Text, pos + 1, pos + n))], ok))
    /\ UNCHANGED <<routerVars, clientVars>>
    /\ UNCHANGED <<response, stage, scan_from, recovery_entered, extracted>>
    /\ UNCHANGED <<applyVars, selectVars>>

\* a terminal error that is reported as a completion
CompleteOnError == [type |-> "complete"]

ErrorEvent == [type |-> "error"]

\* main.py:1579-1582: get_ai_response raises its terminal error
SourceRaises ==
    /\ stage = "streaming"
    /\ stage' = "failed"
    /\ events' = Append(events, ErrorEvent)
    /\ UNCHANGED <<routerVars, clientVars>>
    /\ UNCHANGED <<response, pos, content_buffer, current_file, files_created, files_map,
                   sandbox_calls, scan_from, recovery_entered, extracted>>
    /\ UNCHANGED <<applyVars, selectVars>>

\* a fallback that runs whenever fewer than 3 files were created or a file is still open
RecoveryWhenShortOrOpen(created, open) == created < 3 \/ open # None

\* a fallback that runs for every response
RecoveryAlways(created, open) == TRUE

\* main.py:1421: if files_created == 0
RecoveryTriggered(created, open) == created = 0

\* main.py:1413-1434: the async for over get_ai_response is over and generate_stream goes on
EndOfStream ==
    /\ extracted' = Len(events)
    /\ recovery_entered' = RecoveryTriggered(files_created, current_file)
    /\ stage' = IF ~RecoveryTriggered(files_created, current_file) THEN "validate"
                ELSE IF incomplete_xml(full_ai_response) THEN "recover_xml"
                ELSE "recover_html"
    /\ scan_from' = 1
    /\ UNCHANGED <<routerVars, clientVars>>
    /\ UNCHANGED <<response, pos, content_buffer, current_file, files_created, files_map, events,
                   sandbox_calls>>

\* mvp_builder_agent.py:318-320: the response was streamed to its end
StreamEnd ==
    /\ stage = "streaming"
    /\ pos = Len(Text)
    /\ EndOfStream
    /\ UNCHANGED <<applyVars, selectVars>>

\* mvp_builder_agent.py:343-345: the cancellation reaches the task while get_ai_response
\* waits for the next line; it is caught there and the generator returns, so the async for of
\* generate_stream ends as it does at the end of a response
SourceCancelled ==
    /\ stage = "streaming"
    /\ pos < Len(Text)
    /\ EndOfStream
    /\ UNCHANGED <<applyVars, selectVars>>

\* the stages in which generate_stream is still running
Running == {"streaming", "recover_xml", "recover_html", "recover_css", "recover_js", "validate"}

\* main.py:1575-1578: the cancellation reaches generate_stream itself, which returns without
\* another event
Cancelled ==
    /\ stage \in Running
    /\ stage' = "cancelled"
    /\ extracted' = IF stage = "streaming" THEN Len(events) ELSE extracted
    /\ UNCHANGED <<routerVars, clientVars>>
    /\ UNCHANGED <<response, pos, content_buffer, current_file, files_created, files_map, events,
                   sandbox_calls, scan_from, recovery_entered>>
    /\ UNCHANGED <<applyVars, selectVars>>

\* the write of a recovered file: update_sandbox_file, and on success files_map, files_created
\* and the 'completed' event (main.py:1454-1471, 1482-1493, 1511-1522, 1540-1551)
RecoverFile(path, content, language, ok) ==
    /\ sandbox_calls' = Append(sandbox_calls, path)
    /\ files_map' = IF ok THEN DictPut(files_map, path, content) ELSE files_map
    /\ files_created' = IF ok THEN files_created + 1 ELSE files_created
    /\ events' = IF ok THEN Append(events, FileEvent(path, "completed", content, language))
                       ELSE events

\* main.py:1436-1471: one match of file_pattern in the whole response
RecoverXmlFile ==
    /\ stage = "recover_xml"
    /\ XmlMatch(full_ai_response, scan_from).found
    /\ LET m == XmlMatch(full_ai_response, scan_from)
           file_content == CompleteTruncated(m.path, Strip(m.content))
       IN  /\ scan_from' = m.next
           /\ IF DictHas(files_map, m.path)
              THEN UNCHANGED <<files_map, files_created, events, sandbox_calls>>
              ELSE \E ok \in BOOLEAN :
                        RecoverFile(m.path, file_content, RecoveryLanguage(m.path), ok)
    /\ UNCHANGED <<routerVars, clientVars>>
    /\ UNCHANGED <<response, pos, stage, content_buffer, current_file, recovery_entered, extracted>>
    /\ UNCHANGED <<applyVars, selectVars>>

\* re.finditer is exhausted
RecoverXmlDone ==
    /\ stage = "recover_xml"
    /\ ~XmlMatch(full_ai_response, scan_from).found
    /\ stage' = "recover_html"
    /\ UNCHANGED <<routerVars, clientVars>>
    /\ UNCHANGED <<response, pos, content_buffer, current_file, files_created, files_map, events,
                   sandbox_calls, scan_from, recovery_entered, extracted>>
    /\ UNCHANGED <<applyVars, selectVars>>

\* one of the three named fallbacks: the file is written unless it is in files_map already
\* or the response holds nothing for it
RecoverNamed(path, content, language, next) ==
    /\ stage' = next
    /\ IF DictHas(files_map, path) \/ content = <<>>
       THEN UNCHANGED <<files_map, files_created, events, sandbox_calls>>
       ELSE \E ok \in BOOLEAN : RecoverFile(path, content, language, ok)
    /\ UNCHANGED <<routerVars, clientVars>>
    /\ UNCHANGED <<response, pos, content_buffer, current_file, scan_from, recovery_entered,
                   extracted>>

\* main.py:1473-1493
RecoverHtml ==
    /\ stage = "recover_html"
    /\ RecoverNamed(IndexHtml, HtmlFallback(full_ai_response), "html", "recover_css")
    /\ UNCHANGED <<applyVars, selectVars>>

\* main.py:1495-1522
RecoverCss ==
    /\ stage = "recover_css"
    /\ RecoverNamed(StylesCss, CssFallback(full_ai_response), "css", "recover_js")
    /\ UNCHANGED <<applyVars, selectVars>>

\* main.py:1524-1551
RecoverJs ==
    /\ stage = "recover_js"
    /\ RecoverNamed(ScriptJs, JsFallback(full_ai_response), "javascript", "validate")
    /\ UNCHANGED <<applyVars, selectVars>>

\* a validation that warns only when nothing at all was created
NothingCreated(n) == n = 0

\* main.py:1562: if files_created < 3
BelowMinimum(n) == n < 3

WarningEvent(n) == [type |-> "warning", files_created |-> n]

CompleteEvent(n, keys) == [type |-> "complete", files_count |-> n, files |-> keys]

\* main.py:1561-1573: the file count is validated and the 'complete' event is sent
Finish ==
    /\ stage = "validate"
    /\ stage' = "complete"
    /\ events' = (IF BelowMinimum(files_created) THEN Append(events, WarningEvent(files_created))
                                       ELSE events)
                    \o <<CompleteEvent(files_created, DictKeys(files_map))>>
    /\ UNCHANGED <<routerVars, clientVars>>
    /\ UNCHANGED <<response, pos, content_buffer, current_file, files_created, files_map,
                   sandbox_calls, scan_from, recovery_entered, extracted>>
    /\ UNCHANGED <<applyVars, selectVars>>

NextStream ==
    \/ Cancelled
    \/ SourceRaises
    \/ StreamEnd
    \/ SourceCancelled
    \/ ReceiveChunk
    \/ RecoverXmlFile
    \/ RecoverXmlDone
    \/ RecoverHtml
    \/ RecoverCss
    \/ RecoverJs
    \/ Finish

SpecStream == InitStream /\ [][NextStream]_vars

\* the response is iterated for as long as generate_stream has a step to take: the source
\* ends, raises (its requests carry a timeout) or is cancelled
SpecStreamFair == SpecStream /\ WF_vars(NextStream)

(***************************************************************************)
(* MVPBuilderAgent.apply_code_to_sandbox: parse the generated code, detect *)
(* and install packages, write the files.                                  *)
(***************************************************************************)
\* pieces of the generated code in a call of apply_code_to_sandbox
MaxCodeItems == 2

\* the argument generated_code as text
CodeText == Flatten(generated_code)

\* the next match of '<file path="([^"]+)">([\s\S]*?)</file>' at or after position from: an
\* open tag with a '</file>' somewhere after it
FileRegexMatch(code, from) ==
    LET S == {q \in from..Len(code) :
                /\ code[q] = "<"
                /\ OpenMatchEnd(code, q) > 0
                /\ Find(code, CloseTag, OpenMatchEnd(code, q) + 1) > 0}
        q == Least(S)
        e == OpenMatchEnd(code, q)
        c == Find(code, CloseTag, e + 1)
    IN  IF S = {} THEN [found |-> FALSE, path |-> <<>>, content |-> <<>>, next |-> from]
        ELSE [found |-> TRUE,
              path |-> SubSeq(code, q + Len(OpenHead), e - 2),
              content |-> SubSeq(code, e + 1, c - 1),
              next |-> c + Len(CloseTag)]

\* mvp_builder_agent.py:936-940: files[path.strip()] = content.strip() for every match
RECURSIVE ParseFileTags(_, _, _)
ParseFileTags(code, from, parsed) ==
    LET m == FileRegexMatch(code, from)
    IN  IF ~m.found THEN parsed
        ELSE ParseFileTags(code, m.next, DictPut(parsed, Strip(m.path), Strip(m.content)))

\* mvp_builder_agent.py:932-950; the second loop matches markdown code blocks, which begin
\* with three backticks: the generated code drawn here holds none
parse_generated_code(code) == ParseFileTags(code, 1, <<>>)

\* what extract_packages_from_files can return for the parsed files
PackageLists == {<<>>, <<"react">>}

StatusEvent(message) == [type |-> "status", message |-> message]

ApplyError(message) == [type |-> "error", message |-> message]

\* mvp_builder_agent.py:891-900: the code is parsed; without files the run ends in an error
ApplyParse ==
    /\ apply_pc = "start"
    /\ files' = parse_generated_code(CodeText)
    /\ IF parse_generated_code(CodeText) = <<>>
       THEN /\ apply_events' = apply_events \o <<StatusEvent("parsing"), ApplyError("no files")>>
            /\ apply_pc' = "done"
       ELSE /\ apply_events' = apply_events \o <<StatusEvent("parsing"), StatusEvent("found")>>
            /\ apply_pc' = "parsed"
    /\ UNCHANGED <<e2b_api_key, generated_code, packages_result, updated>>
    /\ UNCHANGED <<routerVars, clientVars, streamVars, selectVars>>

\* mvp_builder_agent.py:821-822, 927-929: without an E2B key detect_and_install_packages
\* raises ValueError before its try block; apply_code_to_sandbox catches it and ends
DetectRaises ==
    /\ apply_pc = "parsed"
    /\ ~e2b_api_key
    /\ apply_events' = apply_events \o <<StatusEvent("detecting"), ApplyError("E2B API key not configured")>>
    /\ apply_pc' = "done"
    /\ UNCHANGED <<e2b_api_key, generated_code, files, packages_result, updated>>
    /\ UNCHANGED <<routerVars, clientVars, streamVars, selectVars>>

PackagesEvent(packages) == [type |-> "packages", packages |-> packages]

\* mvp_builder_agent.py:824-879: the four ways detect_and_install_packages returns
InstallResults ==
    {[success |-> TRUE, packages_installed |-> <<>>, how |-> "nothing to install"]}
    \cup {[success |-> TRUE, packages_installed |-> pk, how |-> "installed"] :
                pk \in PackageLists \ {<<>>}}
    \cup {[success |-> FALSE, packages_installed |-> <<>>, how |-> h] :
                h \in {"install failed", "raised"}}

\* mvp_builder_agent.py:902-912: packages are detected and installed; whatever the result,
\* the run goes on
DetectAndInstall ==
    /\ apply_pc = "parsed"
    /\ e2b_api_key
    /\ \E r \in InstallResults :
        /\ packages_result' = r
        /\ apply_events' = apply_events \o <<StatusEvent("detecting")>> \o
                (IF r.packages_installed # <<>> THEN <<PackagesEvent(r.packages_installed)>>
                                                ELSE <<>>)
    /\ apply_pc' = "installed"
    /\ UNCHANGED <<e2b_api_key, generated_code, files, updated>>
    /\ UNCHANGED <<routerVars, clientVars, streamVars, selectVars>>

ApplyComplete(paths, packages) ==
    [type |-> "complete", files_created |-> paths, packages_installed |-> packages]

\* mvp_builder_agent.py:529-555: update_sandbox_files logs the files and returns True
update_sandbox_files(fs) == TRUE

\* mvp_builder_agent.py:914-925: the files are written and the run completes
ApplyUpdate ==
    /\ apply_pc = "installed"
    /\ updated' = Append(updated, DictKeys(files))
    /\ apply_events' = apply_events \o <<StatusEvent("applying")>> \o
            (IF update_sandbox_files(files)
             THEN <<ApplyComplete(DictKeys(files), packages_result.packages_installed)>>
             ELSE <<ApplyError("Failed to apply some files")>>)
    /\ apply_pc' = "done"
    /\ UNCHANGED <<e2b_api_key, generated_code, files, packages_result>>
    /\ UNCHANGED <<routerVars, clientVars, streamVars, selectVars>>

\* apply_code_to_sandbox is called on some generated code, with or without an E2B key
InitApply ==
    /\ key_lists = [m \in Families |-> Pool(m, 1)]
    /\ environ = EnvironOf(key_lists)
    /\ constructed = TRUE
    /\ current_key_index = [m \in Families |-> 0]
    /\ lastKey = None
    /\ rotFamily = None
    /\ rotStart = 0
    /\ rotSeen = <<>>
    /\ IdleClient
    /\ IdleStream
    /\ IdleSelect
    /\ e2b_api_key \in BOOLEAN
    /\ generated_code \in UNION {[1..n -> Pieces] : n \in 0..MaxCodeItems}
    /\ apply_pc = "start"
    /\ files = <<>>
    /\ packages_result = None
    /\ apply_events = <<>>
    /\ updated = <<>>

NextApply ==
    \/ ApplyParse
    \/ DetectRaises
    \/ DetectAndInstall
    \/ ApplyUpdate

SpecApply == InitApply /\ [][NextApply]_vars

(***************************************************************************)
(* Properties of the client and of the router.                             *)
(***************************************************************************)
PoolSize(c) == Len(get_all_keys_for_model(model[c]))

Positions(c, kinds) == {i \in 1..Len(log[c]) : log[c][i].kind \in kinds}

\* the position in log[c] of the n-th entry of the kind
NthPosition(c, kind, n) ==
    CHOOSE i \in Positions(c, {kind}) : Cardinality({j \in Positions(c, {kind}) : j <= i}) = n

\* the deltas of the upstream response of the a-th attempt, complete and in order
FullResponse(a) == [k \in 1..MaxDeltas |-> Delta(a, k)]

\* C3: a finished streaming call has delivered exactly the deltas of one single
\* upstream response, complete and in order, and a failed call has raised exactly
\* one terminal error.
C3_OneResponseOrOneError ==
    \A c \in Calls :
        /\ pc[c] = "done" => \E a \in 1..Len(Attempts(c)) : delivered[c] = FullResponse(a)
        /\ pc[c] = "raised" => Len(error[c]) = 1

FirstRateLimited(c, k) ==
    /\ Len(Responses(c)) >= k
    /\ \A j \in 1..k : Responses(c)[j].cls = "rate_limited"

\* C4: when the first K attempts of a call running alone are all rate limited
\* (K the pool size), those K attempts use K pairwise distinct credentials and
\* the call has not slept before the K-th attempt failed.
C4_RotationBound ==
    \A c \in Calls :
        FirstRateLimited(c, PoolSize(c)) =>
            /\ \A i, j \in 1..PoolSize(c) :
                    i # j => Attempts(c)[i].idx # Attempts(c)[j].idx
            /\ \A i \in Positions(c, {"sleep"}) :
                    i > NthPosition(c, "response", PoolSize(c))

C4_Witness ==
    \E c \in Calls :
        /\ PoolSize(c) = MaxKeys
        /\ FirstRateLimited(c, PoolSize(c))
        /\ pc[c] = "sleeping"
        /\ Len(Attempts(c)) = PoolSize(c)

\* C5 as stated: a logical call rotates the pool at most poolSize - 1 times in
\* total.
C5_TotalRotationsBounded ==
    \A c \in Calls : Cardinality(Positions(c, {"rotate"})) <= PoolSize(c) - 1

RateLimitSleeps(c) == {i \in Positions(c, {"sleep"}) : log[c][i].cls = "rate_limited"}

\* the rotations of call c since its last rate-limit sleep (since its start without one)
RotationsSinceRateLimitSleep(c) ==
    Cardinality({i \in Positions(c, {"rotate"}) : \A j \in RateLimitSleeps(c) : j < i})

\* the attempt of call c that precedes position i of its log
LastAttemptBefore(c, i) ==
    log[c][CHOOSE j \in Positions(c, {"attempt"}) :
                /\ j < i
                /\ \A k \in Positions(c, {"attempt"}) : k < i => k <= j]

\* C5 amended: key_rotation_count never exceeds poolSize - 1 and counts the
\* rotations since the last rate-limit sleep; the attempt made right after a sleep
\* uses the credential index of the attempt before the sleep; the rate-limit sleep
\* resets key_rotation_count to 0, so the pool is rotated again afterwards.
C5_RotationsPerRound ==
    \A c \in Calls :
        /\ key_rotation_count[c] <= PoolSize(c) - 1
        /\ pc[c] \in {"posted", "streaming"} =>
                RotationsSinceRateLimitSleep(c) = key_rotation_count[c]
        /\ \A i \in Positions(c, {"sleep"}) :
                i < Len(log[c]) =>
                    /\ log[c][i + 1].kind = "attempt"
                    /\ log[c][i + 1].idx = LastAttemptBefore(c, i).idx

C5_Witness ==
    \E c \in Calls :
        /\ PoolSize(c) >= 2
        /\ Cardinality(Positions(c, {"rotate"})) > PoolSize(c) - 1
        /\ RateLimitSleeps(c) # {}

Range(seq) == {seq[i] : i \in 1..Len(seq)}

RotationsBetween(c, i, j) == Cardinality({k \in Positions(c, {"rotate"}) : i < k /\ k < j})

\* what every state of a call shows of the sticky index
StickyState ==
    \A c \in Calls :
        /\ (pc[c] # "idle" /\ \A e \in Range(Responses(c)) : e.cls # "rate_limited") =>
                current_key_index[model[c]] = Attempts(c)[1].idx
        /\ \A i, j \in Positions(c, {"attempt"}) :
                (i < j /\ log[c][i].idx = log[c][j].idx) =>
                    \/ RotationsBetween(c, i, j) = 0
                    \/ RotationsBetween(c, i, j) >= PoolSize(c)

\* what every step of a call does to the sticky index
StickyStep ==
    \A c \in Calls :
        /\ (pc[c] = "idle" /\ pc'[c] = "posted") =>
                /\ current_key_index' = current_key_index
                /\ Attempts(c)'[1].idx = current_key_index[model'[c]]
        /\ pc'[c] = "done" => current_key_index' = current_key_index
        /\ (pc[c] # "idle" /\ current_key_index' # current_key_index) =>
                /\ Len(log'[c]) > Len(log[c])
                /\ log'[c][Len(log[c]) + 1].cls = "rate_limited"
                /\ current_key_index' = [current_key_index EXCEPT ![model[c]] =
                                            (@ + 1) % PoolSize(c)]

\* C7: the pool index is sticky: a call that sees no rate-limited response leaves
\* it where it was, finishing a call does not reset it, the first attempt of the
\* next call uses the index the previous call left, only a rate-limit rotation
\* moves it (by one, modulo the pool size), and within a call a credential is used
\* again after a rotation only once the rotation has wrapped around the pool.
C7_StickyIndex == [](StickyState) /\ [][StickyStep]_vars

C7_Witness ==
    \E c \in Calls :
        /\ pc[c] = "done"
        /\ Len(Attempts(c)) = 1
        /\ Attempts(c)[1].idx # 0
        /\ current_key_index[model[c]] = Attempts(c)[1].idx

KeyAt(m, i) == key_lists[m][(i % Len(key_lists[m])) + 1]

\* C8: for every family with credentials the index stays in 0..len-1; n
\* consecutive rotate_key calls from index s leave the index at (s + n) mod len,
\* each returning the credential at its new index, so len of them return to s
\* having returned every credential of the pool once.
C8_IndexInRangeAndCyclic ==
    /\ \A m \in Families :
            Len(key_lists[m]) >= 1 =>
                current_key_index[m] \in 0..(Len(key_lists[m]) - 1)
    /\ \A m \in Families :
            (rotFamily = m /\ Len(key_lists[m]) >= 1) =>
                /\ current_key_index[m] = (rotStart + Len(rotSeen)) % Len(key_lists[m])
                /\ lastKey = KeyAt(m, current_key_index[m])
                /\ \A k \in 1..Len(rotSeen) : rotSeen[k] = KeyAt(m, rotStart + k)
                /\ Len(rotSeen) = Len(key_lists[m]) =>
                        /\ current_key_index[m] = rotStart
                        /\ Range(rotSeen) = Range(key_lists[m])
                        /\ Cardinality(Range(rotSeen)) = Len(rotSeen)

C8_Witness ==
    \E m \in Families :
        /\ rotFamily = m
        /\ Len(key_lists[m]) = MaxKeys
        /\ Len(rotSeen) = Len(key_lists[m])
        /\ rotStart # 0

(***************************************************************************)
(* Properties of the extractor and of the fallback extraction.             *)
(***************************************************************************)
IsCompleted(e) == e.type = "file_operation" /\ e.status = "completed"

IsWriteError(e) == e.type = "file_operation" /\ e.status = "error"

\* the <<path, content>> of the 'completed' events of a list of events, in order
CompletedFiles(evs) ==
    LET done == SelectSeq(evs, IsCompleted)
    IN  [i \in 1..Len(done) |-> <<done[i].path, done[i].content>>]

\* every sandbox write so far has succeeded
WritesSucceeded == SelectSeq(events, IsWriteError) = <<>>

\* the extractor run on a text that arrives as one chunk, every write succeeding
OneShot(text) == ParseBuffer([FreshCursor EXCEPT !.content_buffer = text], TRUE)

\* C1: chunk-boundary invariance.  However the text received so far was cut into chunks,
\* the 'completed' events (path, content, order) emitted while consuming them are those the
\* extractor emits for the same text delivered as a single chunk, provided the sandbox
\* writes succeed.
C1_ChunkBoundaryInvariance ==
    (stage = "streaming" /\ WritesSucceeded)
        => CompletedFiles(events) = CompletedFiles(OneShot(full_ai_response).events)

\* Two files are complete and a third is open in the middle of a response: every chunk so far
\* was at most MaxChunk characters, shorter than any region, so each region was cut by
\* several chunk boundaries.
C1_Witness ==
    /\ stage = "streaming"
    /\ WritesSucceeded
    /\ pos < Len(Text)
    /\ Len(CompletedFiles(events)) = 2
    /\ current_file # None
    /\ content_buffer # <<>>

\* leading and trailing whitespace removed, one character at a time
RECURSIVE Trimmed(_)
Trimmed(s) ==
    IF s = <<>> THEN s
    ELSE IF Head(s) \in Whitespace THEN Trimmed(Tail(s))
    ELSE IF s[Len(s)] \in Whitespace THEN Trimmed(SubSeq(s, 1, Len(s) - 1))
    ELSE s

\* the response is N well-formed regions, each after prose without a delimiter
OnlyRegions == \A i \in 1..Len(response) : response[i].kind = "region"

\* C2: for a response of N well-formed regions <file path="P_i">C_i</file> separated by prose
\* without delimiters, every write succeeding, the extractor emits exactly N 'completed'
\* events, the i-th with path P_i and content C_i trimmed of leading and trailing
\* whitespace, in the order of the close delimiters.
C2_RegionsExtractedInOrder ==
    (stage = "streaming" /\ pos = Len(Text) /\ OnlyRegions /\ WritesSucceeded)
        => CompletedFiles(events) =
                [i \in 1..Len(response) |-> <<response[i].path, Trimmed(response[i].content)>>]

\* three regions, one of them with whitespace around its content, all consumed
C2_Witness ==
    /\ stage = "streaming"
    /\ pos = Len(Text)
    /\ OnlyRegions
    /\ WritesSucceeded
    /\ Len(response) = 3
    /\ \E i \in 1..3 : Trimmed(response[i].content) # response[i].content
    /\ Len(CompletedFiles(events)) = 3

\* the chunk stream has ended and generate_stream went on
AfterStream == stage \in {"recover_xml", "recover_html", "recover_css", "recover_js", "validate",
                          "complete"}

InRecovery == stage \in {"recover_xml", "recover_html", "recover_css", "recover_js"}

\* the files the incremental extractor completed, counted at the end of the chunk stream
CompletedAtEnd == Len(CompletedFiles(SubSeq(events, 1, extracted)))

\* the sandbox writes the incremental extractor made, counted at the end of the chunk stream
WritesAtEnd ==
    Len(SelectSeq(SubSeq(events, 1, extracted), IsCompleted))
        + Len(SelectSeq(SubSeq(events, 1, extracted), IsWriteError))

C10_NoRecoveryWhenEnoughFiles ==
    (AfterStream /\ CompletedAtEnd >= 3 /\ current_file = None)
        => /\ ~recovery_entered
           /\ ~InRecovery
           /\ Len(sandbox_calls) = WritesAtEnd
           /\ Len(CompletedFiles(events)) = CompletedAtEnd

\* three files were extracted, none is open, and the 'complete' event was sent
C10_Witness ==
    /\ stage = "complete"
    /\ CompletedAtEnd = 3
    /\ current_file = None
    /\ files_created = 3
    /\ events[Len(events)].type = "complete"

\* Scenario C: the only markup of the response is an open tag for app.js followed by
\* 'function f(){', and the stream ends after all of it was received
ScenarioC == response = <<Piece("open", <<>>, AppJs, FunctionF)>> /\ pos = Len(Text)

\* every call of update_sandbox_file so far returned
AllWritesReturned == Len(sandbox_calls) = files_created

IsFileOutcome(e) == IsCompleted(e) \/ IsWriteError(e)

\* C12: when the sandbox write of a completed file raises, the extractor emits a
\* file_operation event with status 'error' for that path instead of 'completed', does not
\* count the file, goes back to looking for an open tag with the consumed prefix discarded,
\* and extracts every later file: a response of N regions yields N outcome events in region
\* order, the completed ones with their trimmed content, and files_created counts the
\* completed ones only.  No 'error' event ends a stream whose source did not raise.
C12_WriteFailureSkipsOneFile ==
    /\ (stage = "streaming" /\ pos = Len(Text) /\ OnlyRegions) =>
            LET out == SelectSeq(events, IsFileOutcome)
            IN  /\ Len(out) = Len(response)
                /\ \A i \in 1..Len(out) :
                        /\ out[i].path = response[i].path
                        /\ IsCompleted(out[i]) => out[i].content = Trimmed(response[i].content)
                /\ files_created = Len(SelectSeq(events, IsCompleted))
                /\ current_file = None
                /\ content_buffer = <<>>
    /\ AfterStream => \A i \in 1..Len(events) : events[i].type # "error"
    /\ stage = "complete" => events[Len(events)].type = "complete"

\* the write of the first of three regions raised, the two later regions were extracted and
\* the stream ended with the 'complete' event
C12_Witness ==
    /\ stage = "complete"
    /\ OnlyRegions
    /\ Len(response) = 3
    /\ LET out == SelectSeq(events, IsFileOutcome)
       IN  /\ Len(out) = 3
           /\ IsWriteError(out[1])
           /\ IsCompleted(out[2])
           /\ IsCompleted(out[3])
    /\ files_created = 2
    /\ events[Len(events)].type = "complete"

\* C13: when the number of files created by the extractor and the recovery together is below
\* 3, a 'warning' event that names the number is emitted and the 'complete' event with the
\* files produced follows it at once; no 'error' event is emitted for the shortfall.
C13_WarningThenComplete ==
    LET n == Len(SelectSeq(events, IsCompleted))
    IN  (stage = "complete" /\ n < 3) =>
            /\ Len(events) >= 2
            /\ events[Len(events) - 1] = WarningEvent(n)
            /\ events[Len(events)] = CompleteEvent(n, DictKeys(files_map))
            /\ \A i \in 1..Len(events) : events[i].type # "error"

\* two files were created, by the extractor, and the run is over
C13_Witness ==
    /\ stage = "complete"
    /\ Len(SelectSeq(events, IsCompleted)) = 2
    /\ files_created = 2
    /\ events[Len(events) - 1].type = "warning"
    /\ events[Len(events)].files = <<PathA, PathB>>

Terminated == stage \in {"complete", "failed", "cancelled"}

\* C14 as stated: every run that is not cancelled ends with a 'complete' event, the runs in
\* which the model client raised its terminal error included.
C14_CompleteAlwaysFires ==
    stage \in {"complete", "failed"} => events[Len(events)].type = "complete"

\* C14: every run terminates; a run whose chunk stream ends and that is not cancelled ends
\* with the 'complete' event reporting files_created and the paths of files_map, and a run in
\* which the model client raises ends with an 'error' event and has no 'complete' event,
\* whatever files were completed before.
C14_CompleteOrError ==
    /\ <>Terminated
    /\ [](stage = "complete" =>
            events[Len(events)] = CompleteEvent(files_created, DictKeys(files_map)))
    /\ [](stage = "failed" =>
            /\ events[Len(events)].type = "error"
            /\ \A i \in 1..Len(events) : events[i].type # "complete")
    /\ [](stage \in Running \cup {"cancelled"} =>
            \A i \in 1..Len(events) : events[i].type \notin {"complete", "error"})

\* the model client raised after two files had been completed
C14_Witness ==
    /\ stage = "failed"
    /\ files_created = 2
    /\ Len(SelectSeq(events, IsCompleted)) = 2
    /\ events[Len(events)].type = "error"

IsFileOperation(e) == e.type = "file_operation"

\* the run was cancelled before the whole response had been received
CancelledMidStream == stage \in {"recover_xml", "recover_html", "recover_css", "recover_js",
                                 "validate", "complete", "cancelled"} /\ pos < Len(Text)

\* C15: when the stream is cancelled while a file is open, no 'completed' event is emitted
\* for the partly received file, by the extractor or by the recovery, and no file event at
\* all follows the cancellation.
C15_NoFileEventAfterCancel ==
    (CancelledMidStream /\ current_file # None) =>
        /\ SelectSeq(events, IsFileOperation)
                = SelectSeq(SubSeq(events, 1, extracted), IsFileOperation)
        /\ \A i \in 1..Len(events) : IsCompleted(events[i]) => events[i].path # current_file
        /\ Len(sandbox_calls) = WritesAtEnd

(***************************************************************************)
(* Properties of the credential loading.                                   *)
(***************************************************************************)
HasKey(raw) == raw.key # ""

\* the index of the first occurrence of k in the list keys
FirstIndex(keys, k) == Least({i \in 1..Len(keys) : keys[i] = k})

NoDuplicates(keys) == \A i, j \in 1..Len(keys) : keys[i] = keys[j] => i = j

FirstSeenOrder(keys, source) ==
    \A i, j \in 1..Len(keys) : i < j => FirstIndex(source, keys[i]) < FirstIndex(source, keys[j])

\* the non-empty values of PREFIX, part by part
MainValues(e) == [i \in 1..Len(SelectSeq(e.main, HasKey)) |-> SelectSeq(e.main, HasKey)[i].key]

\* the non-empty values of all the numbered variables that are set
NumberedValues(e) ==
    [i \in 1..Len(SelectSeq(e.numbered, HasKey)) |-> SelectSeq(e.numbered, HasKey)[i].key]

\* how many of PREFIX_1, PREFIX_2, ... are read: those before the first that is not set or
\* is the empty string
ReadCount(e) ==
    Greatest({n \in 0..Len(e.numbered) : \A i \in 1..n : Truthy(e.numbered[i])})

\* C16 as stated: the result holds every configured non-empty credential, of PREFIX and of
\* every numbered variable, exactly once, in the order of first occurrence.
C16_EveryConfiguredKeyOnce ==
    constructed =>
        LET e == environ["minimax"]
            source == MainValues(e) \o NumberedValues(e)
            keys == key_lists["minimax"]
        IN  /\ \A k \in Range(source) : Cardinality({i \in 1..Len(keys) : keys[i] = k}) = 1
            /\ \A i, j \in 1..Len(keys) :
                    (i < j /\ keys[i] # "" /\ keys[j] # "" /\ {keys[i], keys[j]} \subseteq Range(source))
                        => FirstIndex(source, keys[i]) < FirstIndex(source, keys[j])

\* C16: the result is the stripped non-empty parts of PREFIX followed by the stripped values
\* of PREFIX_1, PREFIX_2, ... up to the first one that is not set or is empty, with
\* duplicates removed and the order of first occurrence kept; numbered variables after a gap
\* are not loaded, and a numbered variable that holds only whitespace contributes ''.
C16_LoadedUpToFirstGap ==
    constructed =>
        LET e == environ["minimax"]
            source == MainValues(e) \o [i \in 1..ReadCount(e) |-> e.numbered[i].key]
            keys == key_lists["minimax"]
        IN  /\ NoDuplicates(keys)
            /\ Range(keys) = Range(source)
            /\ FirstSeenOrder(keys, source)

\* PREFIX=' k1 ,k2', PREFIX_1=k1, PREFIX_2 not set and PREFIX_3=k2: two keys are loaded
C16_Witness ==
    /\ constructed
    /\ environ["minimax"].main = <<Raw(TRUE, TRUE, "k1"), Raw(TRUE, FALSE, "k2")>>
    /\ environ["minimax"].numbered = <<Raw(TRUE, FALSE, "k1"), Unset, Raw(TRUE, FALSE, "k2")>>
    /\ key_lists["minimax"] = <<"k1", "k2">>

(***************************************************************************)
(* Properties of the retries of get_ai_response.                           *)
(***************************************************************************)
TransientSleeps(c) == {i \in Positions(c, {"sleep"}) : log[c][i].cls = "transient"}

\* the delay-based retries of either kind that call c made before position i of its log
SleepsBefore(c, i) == Cardinality({j \in Positions(c, {"sleep"}) : j < i})

TransientSleepsBefore(c, i) == Cardinality({j \in TransientSleeps(c) : j < i})

\* the attempt that follows the sleep at position i is made with the credential of the
\* attempt that failed, and no rotation comes between them
SameCredentialAfter(c, i) ==
    i < Len(log[c]) =>
        /\ log[c][i + 1].kind = "attempt"
        /\ log[c][i + 1].idx = LastAttemptBefore(c, i).idx
        /\ log[c][i + 1].fam = LastAttemptBefore(c, i).fam

\* C17 as stated: the n-th retry after a mid-stream failure (n from 0) waits min(2^n, 10)
\* seconds, uses the credential of the failed attempt without rotating, and there are at
\* most max_retries of them.
C17_BackoffByTransientOrdinal ==
    \A c \in Calls :
        /\ Cardinality(TransientSleeps(c)) <= max_retries
        /\ \A i \in TransientSleeps(c) :
                /\ log[c][i].delay = Min(2 ^ TransientSleepsBefore(c, i), backoff_cap)
                /\ SameCredentialAfter(c, i)

\* C17: on a mid-stream failure the call retries with the credential of the failed attempt,
\* without rotating, after min(2^retry_count, 10) seconds, where retry_count counts the
\* delay-based retries of both kinds (after a rate limit and after a mid-stream failure) the
\* call has made; both kinds together are made at most max_retries times.
C17_BackoffByRetryCount ==
    \A c \in Calls :
        /\ Cardinality(Positions(c, {"sleep"})) <= max_retries
        /\ \A i \in TransientSleeps(c) :
                /\ log[c][i].delay = Min(2 ^ SleepsBefore(c, i), backoff_cap)
                /\ SameCredentialAfter(c, i)

\* a call slept once after a rate limit, then its stream broke: it waited 2 seconds and has
\* posted the request again
C17_Witness ==
    \E c \in Calls : \E i \in TransientSleeps(c) :
        /\ SleepsBefore(c, i) = 1
        /\ TransientSleepsBefore(c, i) = 0
        /\ log[c][i].delay = 2
        /\ i < Len(log[c])
        /\ PoolSize(c) > 1

RateLimitSleepsBefore(c, i) == Cardinality({j \in RateLimitSleeps(c) : j < i})

\* the rotations of call c before position i and after its last rate-limit sleep before i
RotationsInRound(c, i) ==
    Cardinality({r \in Positions(c, {"rotate"}) :
                    r < i /\ \A j \in RateLimitSleeps(c) : j < i => j < r})

ResponseStep(c) ==
    /\ pc[c] = "posted"
    /\ Len(log'[c]) > Len(log[c])
    /\ log'[c][Len(log[c]) + 1].kind = "response"
    /\ log'[c][Len(log[c]) + 1].cls \in {"ok", "rate_limited", "fatal"}

\* what the step did with the response
FollowedBy(c, kind) ==
    /\ Len(log'[c]) >= Len(log[c]) + 2
    /\ log'[c][Len(log[c]) + 2].kind = kind

TreatedRateLimited(c) ==
    \/ FollowedBy(c, "rotate")
    \/ FollowedBy(c, "sleep")
    \/ log'[c][Len(log[c]) + 1].cls = "rate_limited"

\* the response ends the call: no rotation, no further attempt, the pool index stays
FatalStep(c) ==
    /\ log'[c][Len(log[c]) + 1].cls = "fatal"
    /\ Len(log'[c]) = Len(log[c]) + 1
    /\ pc'[c] = "raised"
    /\ current_key_index' = current_key_index
    /\ retry_count' = retry_count

HasQuotaPhrase(body) == \E p \in QuotaPhrases : p \in body

\* C19 as stated: a response is treated as rate limited exactly when its status is 429 or
\* its body, with a 2xx or 4xx status, contains a quota phrase; every other non-2xx
\* response is fatal: no rotation, no retry, the pool index unchanged.
C19_PhraseIn2xxOr4xx ==
    [][\A c \in Calls : ResponseStep(c) =>
        LET status == last_response'[1]
            body == last_response'[2]
            claimed == status = 429 \/ (HasQuotaPhrase(body) /\ status < 500)
        IN  /\ TreatedRateLimited(c) <=> claimed
            /\ (~claimed /\ status >= 300) => FatalStep(c)]_vars

\* C19: a response is treated as rate limited exactly when it is not ok (status 400 or
\* more) and its status is 429 or its body contains a quota phrase, for 4xx and 5xx alike:
\* it is then rotated, or retried after a delay, or raised once rotations and retries are
\* used up. The body of an ok response is not inspected: the stream is read. Every other
\* not-ok response is fatal: no rotation, no retry, the pool index unchanged.
C19_PhraseInAnyErrorBody ==
    [][\A c \in Calls : ResponseStep(c) =>
        LET status == last_response'[1]
            body == last_response'[2]
            limited == status >= 400 /\ (status = 429 \/ HasQuotaPhrase(body))
        IN  /\ TreatedRateLimited(c) <=> limited
            /\ limited =>
                \/ FollowedBy(c, "rotate") /\ key_rotation_count[c] < PoolSize(c) - 1
                \/ /\ FollowedBy(c, "sleep")
                   /\ key_rotation_count[c] >= PoolSize(c) - 1
                   /\ retry_count[c] < max_retries
                \/ /\ pc'[c] = "raised"
                   /\ key_rotation_count[c] >= PoolSize(c) - 1
                   /\ retry_count[c] >= max_retries
            /\ (status >= 400 /\ ~limited) => FatalStep(c)
            /\ status < 400 =>
                /\ pc'[c] = "streaming"
                /\ Len(log'[c]) = Len(log[c]) + 1
                /\ current_key_index' = current_key_index]_vars

\* a 500 response whose body carries a quota phrase has just been answered by a rotation
C19_Witness ==
    \E c \in Calls :
        /\ pc[c] = "posted"
        /\ last_response = <<500, {"quota exceeded"}>>
        /\ Len(log[c]) >= 3
        /\ log[c][Len(log[c]) - 2].cls = "rate_limited"
        /\ log[c][Len(log[c]) - 1].kind = "rotate"
        /\ log[c][Len(log[c])].kind = "attempt"

(***************************************************************************)
(* Timeout properties                                                      *)
(***************************************************************************)

Timeouts(c) == {i \in Positions(c, {"response"}) : log[c][i].cls = "timeout"}

\* C20 as stated: a timeout of the outbound request is transient: while retries are left
\* the call backs off and posts again with the same credential, and the terminal error is
\* raised for a timeout only once max_retries retries have been made.
C20_TimeoutRetried ==
    \A c \in Calls : \A i \in Timeouts(c) :
        IF SleepsBefore(c, i) < max_retries
        THEN /\ i < Len(log[c])
             /\ log[c][i + 1].kind = "sleep"
             /\ log[c][i + 1].delay = Min(2 ^ SleepsBefore(c, i), backoff_cap)
             /\ SameCredentialAfter(c, i + 1)
        ELSE pc[c] = "raised"

(***************************************************************************)
(* Terminal error properties                                               *)
(***************************************************************************)

\* the pool indices call c has posted a request with
IndicesUsed(c) == {log[c][i].idx : i \in Positions(c, {"attempt"})}

\* C21 as stated: when the call raises 'All N ... keys failed or exhausted', every one of
\* the N credentials of the pool was used for at least one attempt of the call.
C21_AllKeysTriedBeforeTerminal ==
    \A c \in Calls :
        (pc[c] = "raised" /\ error[c] = <<"AllKeysFailed">>) =>
            IndicesUsed(c) = 0..(PoolSize(c) - 1)

(***************************************************************************)
(* Extractor protocol properties                                           *)
(***************************************************************************)

\* the events the incremental extractor has yielded
IncrementalEvents == IF stage = "streaming" THEN events ELSE SubSeq(events, 1, extracted)

IsProcessing(e) == e.type = "file_operation" /\ e.status = "processing"

\* files opened and not yet closed, counted from the events
OpenCount ==
    Len(SelectSeq(IncrementalEvents, IsProcessing))
        - Len(SelectSeq(IncrementalEvents, IsFileOutcome))

\* the 'processing' event that announces the outcome at position i
Announced(evs, i) ==
    \E j \in 1..(i - 1) :
        /\ IsProcessing(evs[j])
        /\ evs[j].path = evs[i].path
        /\ \A k \in (j + 1)..(i - 1) : ~IsProcessing(evs[k])
        /\ \A k \in (j + 1)..(i - 1) : ~IsFileOutcome(evs[k])

ProtocolState ==
    /\ OpenCount \in {0, 1}
    /\ stage \in {"streaming", "recover_xml", "recover_html", "recover_css", "recover_js",
                  "validate", "complete"} => (OpenCount = 1 <=> current_file # None)
    /\ \A i \in 1..Len(IncrementalEvents) :
            IsFileOutcome(IncrementalEvents[i]) => Announced(IncrementalEvents, i)

\* the position p of buf is the last character of a match of one of the two delimiters
DelimiterEndsAt(buf, p) ==
    \/ MatchesAt(buf, CloseTag, p - Len(CloseTag) + 1)
    \/ \E q \in 1..p : OpenMatchEnd(buf, q) = p

BufferStep ==
    pos' > pos =>
        LET grown == content_buffer \o SubSeq(Text, pos + 1, pos')
            dropped == Len(grown) - Len(content_buffer')
        IN  /\ dropped >= 0
            /\ content_buffer' = Tail_(grown, dropped + 1)
            /\ dropped = 0 \/ DelimiterEndsAt(grown, dropped)

\* C22: at most one file is open at any time; each 'completed' or 'error' file event of
\* the incremental extractor follows the 'processing' event of its own file with no other
\* 'processing' event in between; and a chunk changes the buffer only by being appended
\* and by the removal of a prefix that ends at a matched delimiter.
C22_ExtractorProtocol == [](ProtocolState) /\ [][BufferStep]_vars

\* two files were closed, one of them with a failed write, and a third is open with text
\* waiting in the buffer
C22_Witness ==
    /\ stage = "streaming"
    /\ Len(SelectSeq(events, IsCompleted)) = 1
    /\ Len(SelectSeq(events, IsWriteError)) = 1
    /\ current_file # None
    /\ content_buffer # <<>>
    /\ OpenCount = 1

(***************************************************************************)
(* Stray close delimiter properties                                        *)
(***************************************************************************)

IsRegion(it) == it.kind = "region"

IsStrayClose(it) == it.kind = "text" /\ it.content = CloseTag

\* the response is well-formed regions and close delimiters that no open tag precedes
RegionsAndStrayCloses ==
    /\ \A i \in 1..Len(response) : IsRegion(response[i]) \/ IsStrayClose(response[i])
    /\ \E i \in 1..Len(response) : IsStrayClose(response[i])

\* the text of the first k pieces
PrefixText(k) == Flatten(SubSeq(response, 1, k))

\* the regions among the first k pieces, in order
RegionsIn(k) == SelectSeq(SubSeq(response, 1, k), IsRegion)

\* C23: a close delimiter that arrives while no file is open opens nothing and yields no
\* event: whenever the text received ends at the end of a piece of a response made of
\* regions and stray close delimiters, no file is open, the events are one 'processing' and
\* one outcome per region received and none for a stray delimiter, and each region that was
\* written is completed with exactly its own trimmed content.
C23_StrayCloseIgnored ==
    (stage = "streaming" /\ RegionsAndStrayCloses) =>
        \A k \in 0..Len(response) :
            pos = Len(PrefixText(k)) =>
                /\ current_file = None
                /\ Len(events) = 2 * Len(RegionsIn(k))
                /\ \A i \in 1..Len(RegionsIn(k)) :
                        /\ events[2 * i - 1] =
                                FileEvent(RegionsIn(k)[i].path, "processing", <<>>,
                                          Language(RegionsIn(k)[i].path))
                        /\ events[2 * i].path = RegionsIn(k)[i].path
                        /\ IsFileOutcome(events[2 * i])
                        /\ IsCompleted(events[2 * i]) =>
                                events[2 * i].content = Trimmed(RegionsIn(k)[i].content)

\* a stray close delimiter, then a region, then another stray close delimiter, all received:
\* the region alone was extracted
C23_Witness ==
    /\ stage = "streaming"
    /\ Len(response) = 3
    /\ IsStrayClose(response[1])
    /\ IsRegion(response[2])
    /\ IsStrayClose(response[3])
    /\ pos = Len(Text)
    /\ Len(events) = 2
    /\ IsCompleted(events[2])
    /\ current_file = None

(***************************************************************************)
(* Unterminated open tag properties                                        *)
(***************************************************************************)

\* the positions of the open tags of a text
OpenTagsOf(full) == {p \in 1..Len(full) : full[p] = "<" /\ OpenMatchEnd(full, p) > 0}

\* the open tag at p has no '</file>' before the next open tag or the end of the text
Unterminated(full, p) ==
    LET later == {q \in OpenTagsOf(full) : q > p}
        stop == IF later = {} THEN Len(full) + 1 ELSE Least(later)
        c == Find(full, CloseTag, p)
    IN  c = 0 \/ c > stop

PathAt(full, p) == SubSeq(full, p + Len(OpenHead), OpenMatchEnd(full, p) - 2)

\* the 'completed' events of the repair of unterminated open tags, once it is over
RepairEvents == SelectSeq(SubSeq(events, extracted + 1, Len(events)), IsCompleted)

\* C24 as stated: the repair treats each unterminated open tag as a file of its own: no
\* recovered content holds a later open tag, and every unterminated open tag of the
\* response has its path written or already present.
C24_EachOpenTagRecovered ==
    (stage = "recover_html" /\ recovery_entered /\ incomplete_xml(full_ai_response)) =>
        /\ \A i \in 1..Len(RepairEvents) : Find(RepairEvents[i].content, OpenHead, 1) = 0
        /\ \A p \in OpenTagsOf(full_ai_response) :
                Unterminated(full_ai_response, p) =>
                    \/ DictHas(files_map, PathAt(full_ai_response, p))
                    \/ \E i \in 1..Len(sandbox_calls) :
                            sandbox_calls[i] = PathAt(full_ai_response, p)

(***************************************************************************)
(* Recovery and extractor paths                                            *)
(***************************************************************************)

\* the paths of the files the incremental extractor closed, written or not
ClosedPaths ==
    {IncrementalEvents[i].path :
        i \in {j \in 1..Len(IncrementalEvents) : IsFileOutcome(IncrementalEvents[j])}}

\* the events and the sandbox writes that follow the end of the chunk stream
RecoveryEvents == SelectSeq(SubSeq(events, extracted + 1, Len(events)), IsCompleted)

RecoveryWrites == SubSeq(sandbox_calls, WritesAtEnd + 1, Len(sandbox_calls))

\* C25: no recovery step writes or emits a file for a path the incremental extractor
\* already closed in the run, and no path is emitted twice by the recovery.
C25_RecoverySkipsExtractedPaths ==
    AfterStream =>
        /\ \A i \in 1..Len(RecoveryEvents) : RecoveryEvents[i].path \notin ClosedPaths
        /\ \A i \in 1..Len(RecoveryWrites) : RecoveryWrites[i] \notin ClosedPaths
        /\ \A i, j \in 1..Len(RecoveryEvents) :
                RecoveryEvents[i].path = RecoveryEvents[j].path => i = j

\* the extractor closed a.js with a failed write, the repair of open tags has scanned past
\* that region and recovered the unterminated file only
C25_Witness ==
    /\ stage = "recover_html"
    /\ PathA \in ClosedPaths
    /\ Len(RecoveryEvents) = 1
    /\ RecoveryEvents[1].path # PathA
    /\ Find(full_ai_response, OpenTag(PathA), 1) > 0
    /\ Find(full_ai_response, OpenTag(PathA), 1) < Find(full_ai_response, OpenTag(RecoveryEvents[1].path), 1)

(***************************************************************************)
(* apply_code_to_sandbox properties                                        *)
(***************************************************************************)

\* C26 as stated: whenever files were parsed, whether the install step fails, raises or is
\* unavailable for want of a sandbox key, update_sandbox_files is called with all parsed
\* files and the run ends with a 'complete' event that lists them.
C26_InstallNeverAbortsWrite ==
    (apply_pc = "done" /\ files # <<>>) =>
        /\ updated = <<DictKeys(files)>>
        /\ apply_events[Len(apply_events)].type = "complete"
        /\ apply_events[Len(apply_events)].files_created = DictKeys(files)

(***************************************************************************)
(* get_model_for_task properties                                           *)
(***************************************************************************)

\* the families that have a credential
Available == {m \in Families : Len(key_lists[m]) > 0}

\* the order in which the models are tried: preferred, primary and secondary of the task,
\* fallback, then the families in their fixed order
TryOrder(task, preferred) ==
    <<preferred,
      IF task \in {"mvp_generation", "code_edit"} THEN config.mvp_primary
                                                  ELSE config.general_primary,
      IF task \in {"mvp_generation", "code_edit"} THEN config.general_primary
                                                  ELSE config.mvp_primary,
      config.fallback_model, "minimax", "groq", "kimi">>

\* C27: get_model_for_task never returns a model that is excluded or has no credentials;
\* it returns None exactly when every available model is excluded; otherwise it returns
\* the first eligible model in the order preferred, primary of the task type, secondary,
\* fallback, any other available model.
C27_FirstEligibleModel ==
    selection.called =>
        LET order == TryOrder(selection.task, selection.preferred)
            eligible == {i \in 1..Len(order) :
                            order[i] \in Available /\ order[i] \notin selection.exclude}
        IN  /\ selection.result # None =>
                    selection.result \in Available /\ selection.result \notin selection.exclude
            /\ selection.result = None <=> Available \subseteq selection.exclude
            /\ selection.result # None =>
                    selection.result = order[CHOOSE i \in eligible : \A j \in eligible : i <= j]

\* the preferred model is excluded, the primary and the secondary of the task have no
\* credentials, and the fallback was returned
C27_Witness ==
    /\ selection.called
    /\ selection.task = "chat"
    /\ selection.preferred \in Available
    /\ selection.preferred \in selection.exclude
    /\ config.general_primary \notin Available
    /\ config.mvp_primary \notin Available
    /\ config.fallback_model \in Available
    /\ selection.result = config.fallback_model

(***************************************************************************)
(* Termination properties                                                  *)
(***************************************************************************)

\* <<retry count, rotation count>> of the innermost frame of call c
Measure(c) == <<retry_count[c], key_rotation_count[c]>>

LexLess(a, b) == a[1] < b[1] \/ (a[1] = b[1] /\ a[2] < b[2])

\* every attempt of a running call after its first raises the measure
MeasureStep ==
    \A c \in Calls :
        (pc[c] # "idle" /\ Len(Attempts(c))' > Len(Attempts(c))) =>
            LexLess(Measure(c), Measure(c)')

MeasureBounded ==
    \A c \in Calls :
        /\ retry_count[c] \in 0..max_retries
        /\ key_rotation_count[c] \in 0..(PoolSize(c) - 1)
        /\ Len(Attempts(c)) <= PoolSize(c) * (max_retries + 1)

\* C28: every logical call terminates: whatever the upstream answers, a call that has
\* started ends (returned or raised), it makes at most poolSize * (max_retries + 1) HTTP
\* attempts, and each attempt after the first strictly raises the pair (retry count,
\* rotation count) in lexicographic order within its bounds.
C28_CallTerminates ==
    /\ [](MeasureBounded)
    /\ [][MeasureStep]_vars
    /\ \A c \in Calls : (pc[c] # "idle") ~> (pc[c] \in {"done", "raised"})

\* a call on a pool of two credentials raised after poolSize * (max_retries + 1) attempts,
\* with both kinds of retry on its way
C28_Witness ==
    \E c \in Calls :
        /\ pc[c] = "raised"
        /\ PoolSize(c) = 2
        /\ Len(Attempts(c)) = PoolSize(c) * (max_retries + 1)
        /\ Measure(c) = <<max_retries, PoolSize(c) - 1>>

(***************************************************************************)
(* Interleaved calls                                                       *)
(***************************************************************************)

CompletedPathSet == {events[i].path : i \in {j \in 1..Len(events) : IsCompleted(events[j])}}

\* C30 as stated: in the 'complete' event files_count is the number of paths in the files
\* list, and the listed paths are exactly the paths of the 'completed' file_operation events
\* of the run, for every input, repeated paths and failed sandbox writes included.
C30_CompleteSummaryConsistent ==
    stage = "complete" =>
        LET c == events[Len(events)]
        IN  /\ c.files_count = Len(c.files)
            /\ {c.files[i] : i \in 1..Len(c.files)} = CompletedPathSet

====
